---- MODULE Spec2Model ----
(***************************************************************************)
(* A model of bin/sleeper.py: the disk cache (cache_path, load_cache,      *)
(* save_cache), the read-through client (fetch, api_get, SleeperAPI), the  *)
(* staleness check and bulk refresh of SleeperTUI, and the matchup report  *)
(* of SleeperTUI.show_matchups.                                            *)
(***************************************************************************)
EXTENDS Integers, Sequences, FiniteSets, TLC

VARIABLES
    files,      \* the cache directory: file name -> [exists, text, mtime]
    now,        \* the wall clock, in seconds (time.time())
    api,        \* the SleeperAPI object: [league_id |-> string]
    call,       \* the last completed client call and what it did
    calls,      \* number of client calls made so far (bounded)
    damaged,    \* number of cache files cut short so far (bounded)
    tui,        \* SleeperTUI: its league_id, the handler position, the content text
    rep,        \* show_matchups: its inputs and its rendered output
    fetched,    \* history: per cache file, the payload of its last successful fetch
    ros,        \* show_rosters: its inputs and the table it showed
    look,       \* LeagueLookupScreen: its inputs, status text, requests and results
    proc        \* the process running main(): arguments, position, exit status

vars == <<files, now, api, call, calls, damaged, tui, rep, fetched, ros, look, proc>>

(***************************************************************************)
(* JSON values as Python holds them after json.load.  Every value has the   *)
(* same record shape; t is the Python type.  A dict keeps its keys in      *)
(* insertion order (keys[i] maps to items[i]).  Python's None is JNull.    *)
(***************************************************************************)
JNull == [t |-> "null", n |-> 0, s |-> "", keys |-> <<>>, items |-> <<>>]
JBool(b) == [t |-> "bool", n |-> IF b THEN 1 ELSE 0, s |-> "", keys |-> <<>>, items |-> <<>>]
JNum(k) == [t |-> "num", n |-> k, s |-> "", keys |-> <<>>, items |-> <<>>]
JStr(str) == [t |-> "str", n |-> 0, s |-> str, keys |-> <<>>, items |-> <<>>]
JList(xs) == [t |-> "list", n |-> 0, s |-> "", keys |-> <<>>, items |-> xs]
JDict(ks, xs) == [t |-> "dict", n |-> 0, s |-> "", keys |-> ks, items |-> xs]

\* Python truthiness, as `if cached` evaluates it.
Truthy(v) ==
    CASE v.t = "null" -> FALSE
      [] v.t = "bool" -> v.n = 1
      [] v.t = "num" -> v.n # 0
      [] v.t = "str" -> v.s # ""
      [] v.t = "list" -> Len(v.items) > 0
      [] v.t = "dict" -> Len(v.keys) > 0

(***************************************************************************)
(* JSON text, as a sequence of tokens.  json.dump(data, f, indent=2) puts  *)
(* a newline and 2*depth spaces before every member of a non-empty         *)
(* container and before its closing bracket, and a space after each colon. *)
(***************************************************************************)
Punct(c) == [k |-> "punct", s |-> c, n |-> 0]
Lit(w) == [k |-> "lit", s |-> w, n |-> 0]
NumTok(i) == [k |-> "num", s |-> "", n |-> i]
StrTok(str) == [k |-> "str", s |-> str, n |-> 0]
Newline(indent) == [k |-> "ws", s |-> "\n", n |-> indent]
Space == [k |-> "ws", s |-> " ", n |-> 1]

IndentWidth == 2

RECURSIVE dumps(_, _)
RECURSIVE dumpItems(_, _, _)
RECURSIVE dumpMembers(_, _, _, _)

\* The members of a list from position i on, at nesting depth d.
dumpItems(xs, i, d) ==
    IF i > Len(xs) THEN <<>>
    ELSE (IF i > 1 THEN <<Punct(",")>> ELSE <<>>)
         \o <<Newline(IndentWidth * d)>> \o dumps(xs[i], d)
         \o dumpItems(xs, i + 1, d)

\* The members of a dict from position i on, at nesting depth d.
dumpMembers(ks, xs, i, d) ==
    IF i > Len(ks) THEN <<>>
    ELSE (IF i > 1 THEN <<Punct(",")>> ELSE <<>>)
         \o <<Newline(IndentWidth * d), StrTok(ks[i]), Punct(":"), Space>>
         \o dumps(xs[i], d)
         \o dumpMembers(ks, xs, i + 1, d)

\* json.dump(v, f, indent=2), for a value nested at depth d.
dumps(v, d) ==
    CASE v.t = "null" -> <<Lit("null")>>
      [] v.t = "bool" -> <<Lit(IF v.n = 1 THEN "true" ELSE "false")>>
      [] v.t = "num" -> <<NumTok(v.n)>>
      [] v.t = "str" -> <<StrTok(v.s)>>
      [] v.t = "list" ->
            IF Len(v.items) = 0 THEN <<Punct("["), Punct("]")>>
            ELSE <<Punct("[")>> \o dumpItems(v.items, 1, d + 1)
                 \o <<Newline(IndentWidth * d), Punct("]")>>
      [] v.t = "dict" ->
            IF Len(v.keys) = 0 THEN <<Punct("{"), Punct("}")>>
            ELSE <<Punct("{")>> \o dumpMembers(v.keys, v.items, 1, d + 1)
                 \o <<Newline(IndentWidth * d), Punct("}")>>

(***************************************************************************)
(* json.load: a recursive-descent parse of the token sequence.  Each       *)
(* parser returns [ok, val, next]; ok = FALSE is json.JSONDecodeError.     *)
(***************************************************************************)
ParseFail == [ok |-> FALSE, val |-> JNull, next |-> 0]
ParseOk(v, j) == [ok |-> TRUE, val |-> v, next |-> j]

RECURSIVE skipWs(_, _)
skipWs(toks, i) ==
    IF i <= Len(toks) /\ toks[i].k = "ws" THEN skipWs(toks, i + 1) ELSE i

IsPunct(toks, i, c) == i <= Len(toks) /\ toks[i] = Punct(c)

\* dict[key] = value while parsing an object: a repeated key keeps its
\* position and takes the last value.
RECURSIVE indexOf(_, _, _)
indexOf(ks, key, i) ==
    IF i > Len(ks) THEN 0 ELSE IF ks[i] = key THEN i ELSE indexOf(ks, key, i + 1)

putMember(d, key, v) ==
    LET at == indexOf(d.keys, key, 1) IN
    IF at = 0 THEN JDict(Append(d.keys, key), Append(d.items, v))
    ELSE JDict(d.keys, [d.items EXCEPT ![at] = v])

RECURSIVE parseValue(_, _)
RECURSIVE parseArray(_, _, _)
RECURSIVE parseObject(_, _, _)

\* After "[" or ",": one value, then "," (another member) or "]".
parseArray(toks, i, acc) ==
    LET r == parseValue(toks, i) IN
    IF ~r.ok THEN ParseFail
    ELSE LET j == skipWs(toks, r.next) IN
         IF IsPunct(toks, j, "]") THEN ParseOk(JList(Append(acc, r.val)), j + 1)
         ELSE IF IsPunct(toks, j, ",") THEN parseArray(toks, j + 1, Append(acc, r.val))
         ELSE ParseFail

\* After "{" or ",": a string key, ":", one value, then "," or "}".
parseObject(toks, i, acc) ==
    LET j == skipWs(toks, i) IN
    IF ~(j <= Len(toks) /\ toks[j].k = "str") THEN ParseFail
    ELSE LET c == skipWs(toks, j + 1) IN
         IF ~IsPunct(toks, c, ":") THEN ParseFail
         ELSE LET r == parseValue(toks, c + 1) IN
              IF ~r.ok THEN ParseFail
              ELSE LET e == skipWs(toks, r.next)
                       d == putMember(acc, toks[j].s, r.val)
                   IN IF IsPunct(toks, e, "}") THEN ParseOk(d, e + 1)
                      ELSE IF IsPunct(toks, e, ",") THEN parseObject(toks, e + 1, d)
                      ELSE ParseFail

parseValue(toks, i) ==
    LET j == skipWs(toks, i) IN
    IF j > Len(toks) THEN ParseFail
    ELSE LET tok == toks[j] IN
         CASE tok.k = "lit" ->
                 ParseOk(IF tok.s = "null" THEN JNull ELSE JBool(tok.s = "true"), j + 1)
           [] tok.k = "num" -> ParseOk(JNum(tok.n), j + 1)
           [] tok.k = "str" -> ParseOk(JStr(tok.s), j + 1)
           [] tok = Punct("[") ->
                 IF IsPunct(toks, skipWs(toks, j + 1), "]")
                 THEN ParseOk(JList(<<>>), skipWs(toks, j + 1) + 1)
                 ELSE parseArray(toks, j + 1, <<>>)
           [] tok = Punct("{") ->
                 IF IsPunct(toks, skipWs(toks, j + 1), "}")
                 THEN ParseOk(JDict(<<>>, <<>>), skipWs(toks, j + 1) + 1)
                 ELSE parseObject(toks, j + 1, JDict(<<>>, <<>>))
           [] OTHER -> ParseFail

\* json.load(f): one value and nothing but whitespace after it.
loads(toks) ==
    LET r == parseValue(toks, 1) IN
    IF r.ok /\ skipWs(toks, r.next) > Len(toks) THEN r ELSE ParseFail

(***************************************************************************)
(* The cache directory and the remote service.                             *)
(***************************************************************************)
BASE_URL == "https://api.sleeper.app/v1"

NumWeeks == 18
Weeks == 1..NumWeeks

\* str.strip() of blanks.
RECURSIVE lstrip(_)
lstrip(text) ==
    IF Len(text) > 0 /\ SubSeq(text, 1, 1) = " "
    THEN lstrip(SubSeq(text, 2, Len(text))) ELSE text
RECURSIVE rstrip(_)
rstrip(text) ==
    IF Len(text) > 0 /\ SubSeq(text, Len(text), Len(text)) = " "
    THEN rstrip(SubSeq(text, 1, Len(text) - 1)) ELSE text
strip(text) == rstrip(lstrip(text))

Digits == "0123456789"
IsDigit(c) == \E i \in 1..Len(Digits) : SubSeq(Digits, i, i) = c
digit_value(c) == (CHOOSE i \in 1..Len(Digits) : SubSeq(Digits, i, i) = c) - 1

\* The digits of an integer literal: at least one, with single underscores
\* allowed between two digits.
is_digits(text) ==
    /\ Len(text) > 0
    /\ \A i \in 1..Len(text) :
          \/ IsDigit(SubSeq(text, i, i))
          \/ /\ SubSeq(text, i, i) = "_"
             /\ 1 < i /\ i < Len(text)
             /\ IsDigit(SubSeq(text, i - 1, i - 1))
             /\ IsDigit(SubSeq(text, i + 1, i + 1))

RECURSIVE digits_value(_, _)
digits_value(text, acc) ==
    IF Len(text) = 0 THEN acc
    ELSE digits_value(SubSeq(text, 2, Len(text)),
                      IF SubSeq(text, 1, 1) = "_" THEN acc
                      ELSE acc * 10 + digit_value(SubSeq(text, 1, 1)))

\* int(league_id) on a string: [ok, val]; ok = FALSE is ValueError.  int()
\* strips blanks, takes one sign and decimal digits, and so accepts leading
\* zeros.
python_int(str) ==
    LET text == strip(str)
        signed == Len(text) > 0 /\ SubSeq(text, 1, 1) \in {"+", "-"}
        body == IF signed THEN SubSeq(text, 2, Len(text)) ELSE text
    IN IF is_digits(body)
       THEN [ok |-> TRUE,
             val |-> IF signed /\ SubSeq(text, 1, 1) = "-"
                     THEN 0 - digits_value(body, 0) ELSE digits_value(body, 0)]
       ELSE [ok |-> FALSE, val |-> 0]

LeagueIdInputs == {"7", "007", "7a", "abc"}

\* `except ValueError: print(...)` without the sys.exit(1): the object is
\* kept, with the id as given.
SleeperAPI_noexit(league_id) ==
    LET r == python_int(league_id) IN
    IF r.ok THEN [exit |-> 0, league_id |-> ToString(r.val)]
    ELSE [exit |-> 0, league_id |-> league_id]

\* SleeperAPI.__init__: exits with status 1 on ValueError, else keeps
\* str(int(league_id)).
SleeperAPI(league_id) ==
    LET r == python_int(league_id) IN
    IF r.ok THEN [exit |-> 0, league_id |-> ToString(r.val)]
    ELSE [exit |-> 1, league_id |-> ""]

cache_path(name) == "cache/" \o name \o ".json"

\* The cache keys the client and the staleness check can form.
CacheNames ==
    {"nfl_players"}
    \cup {kind \o "_" \o SleeperAPI(id).league_id :
            kind \in {"league", "users", "rosters"},
            id \in {i \in LeagueIdInputs : SleeperAPI(i).exit = 0}}
    \cup {"league_" \o id : id \in {i \in LeagueIdInputs : SleeperAPI(i).exit = 0}}
    \cup {"matchups_" \o SleeperAPI(id).league_id \o "_week_" \o ToString(w) :
            id \in {i \in LeagueIdInputs : SleeperAPI(i).exit = 0}, w \in Weeks}

Paths == {cache_path(name) : name \in CacheNames}

NoFile == [exists |-> FALSE, text |-> <<>>, mtime |-> 0]

\* Python's return and raise.
Return(v) == [raised |-> FALSE, val |-> v]
Raise == [raised |-> TRUE, val |-> JNull]

\* The bare `except:` is dropped: a parse error propagates.
load_cache_noexcept(fs, name) ==
    LET p == cache_path(name) IN
    IF fs[p].exists
    THEN (LET r == loads(fs[p].text) IN IF r.ok THEN Return(r.val) ELSE Raise)
    ELSE Return(JNull)

load_cache(fs, name) ==
    LET p == cache_path(name) IN
    IF fs[p].exists
    THEN (LET r == loads(fs[p].text) IN IF r.ok THEN Return(r.val) ELSE Return(JNull))
    ELSE Return(JNull)

\* open(path, "a") instead of "w": the new text follows the old.
save_cache_append(fs, name, data, t) ==
    [fs EXCEPT ![cache_path(name)] =
        [exists |-> TRUE, text |-> @.text \o dumps(data, 0), mtime |-> t]]

\* open(path, "w") truncates, json.dump writes, the close stamps the time.
save_cache(fs, name, data, t) ==
    [fs EXCEPT ![cache_path(name)] =
        [exists |-> TRUE, text |-> dumps(data, 0), mtime |-> t]]

\* What the service answers to one GET: the connection may fail; otherwise a
\* status and a body.
Response(transport, status, body) ==
    [transport |-> transport, status |-> status, body |-> body]

\* raise_for_status() is left out: any answered request is parsed.
fetch_nostatus(resp) ==
    IF ~resp.transport THEN Raise
    ELSE LET r == loads(resp.body) IN IF r.ok THEN Return(r.val) ELSE Raise

\* requests.get raises on a transport failure, raise_for_status on a 4xx or
\* 5xx status, r.json() on a body that is not JSON.
fetch(resp) ==
    IF ~resp.transport THEN Raise
    ELSE IF resp.status >= 400 /\ resp.status < 600 THEN Raise
    ELSE LET r == loads(resp.body) IN IF r.ok THEN Return(r.val) ELSE Raise

\* The outcome of a client call: what it returned or that it raised, the
\* cache directory after it, and the URLs it requested.
Outcome(raised, ret, fs, reqs) ==
    [raised |-> raised, ret |-> ret, fs |-> fs, reqs |-> reqs]

\* The fetched data is returned without save_cache.
api_get_nosave(fs, name, url, force, resp, t) ==
    LET cached == load_cache(fs, name) IN
    IF cached.raised THEN Outcome(TRUE, JNull, fs, <<>>)
    ELSE IF Truthy(cached.val) /\ ~force THEN Outcome(FALSE, cached.val, fs, <<>>)
    ELSE LET data == fetch(resp) IN
         IF data.raised THEN Outcome(TRUE, JNull, fs, <<url>>)
         ELSE Outcome(FALSE, data.val, fs, <<url>>)

\* The file is opened for writing before the request is made: a failed
\* request leaves it empty.
api_get_truncating(fs, name, url, force, resp, t) ==
    LET cached == load_cache(fs, name) IN
    IF cached.raised THEN Outcome(TRUE, JNull, fs, <<>>)
    ELSE IF Truthy(cached.val) /\ ~force THEN Outcome(FALSE, cached.val, fs, <<>>)
    ELSE LET data == fetch(resp)
             opened == [fs EXCEPT ![cache_path(name)] =
                           [exists |-> TRUE, text |-> <<>>, mtime |-> t]]
         IN IF data.raised THEN Outcome(TRUE, JNull, opened, <<url>>)
            ELSE Outcome(FALSE, data.val, save_cache(fs, name, data.val, t), <<url>>)

api_get(fs, name, url, force, resp, t) ==
    LET cached == load_cache(fs, name) IN
    IF cached.raised THEN Outcome(TRUE, JNull, fs, <<>>)
    ELSE IF Truthy(cached.val) /\ ~force THEN Outcome(FALSE, cached.val, fs, <<>>)
    ELSE LET data == fetch(resp) IN
         IF data.raised THEN Outcome(TRUE, JNull, fs, <<url>>)
         ELSE Outcome(FALSE, data.val, save_cache(fs, name, data.val, t), <<url>>)

\* The cache key and URL of each SleeperAPI method.
league_name(a) == "league_" \o a.league_id
league_url(a) == BASE_URL \o "/league/" \o a.league_id
users_name(a) == "users_" \o a.league_id
users_url(a) == BASE_URL \o "/league/" \o a.league_id \o "/users"
rosters_name(a) == "rosters_" \o a.league_id
rosters_url(a) == BASE_URL \o "/league/" \o a.league_id \o "/rosters"
matchups_name(a, week) == "matchups_" \o a.league_id \o "_week_" \o ToString(week)
matchups_url(a, week) == BASE_URL \o "/league/" \o a.league_id \o "/matchups/" \o ToString(week)
players_url == BASE_URL \o "/players/nfl"
user_url(username) == BASE_URL \o "/user/" \o username
user_leagues_url(user_id, season) ==
    BASE_URL \o "/user/" \o user_id \o "/leagues/nfl/" \o ToString(season)

league(fs, a, force, resp, t) == api_get(fs, league_name(a), league_url(a), force, resp, t)
users(fs, a, force, resp, t) == api_get(fs, users_name(a), users_url(a), force, resp, t)
rosters(fs, a, force, resp, t) == api_get(fs, rosters_name(a), rosters_url(a), force, resp, t)
matchups(fs, a, week, force, resp, t) ==
    api_get(fs, matchups_name(a, week), matchups_url(a, week), force, resp, t)
players(fs, a, resp, t) == api_get(fs, "nfl_players", players_url, FALSE, resp, t)

\* The two live lookups: fetch alone, the cache is not involved.
LiveOutcome(fs, url, resp) ==
    LET data == fetch(resp) IN Outcome(data.raised, data.val, fs, <<url>>)
\* The lookup goes through api_get like the cached resources, under the
\* league's key.
user_cached(fs, a, username, resp) ==
    api_get(fs, league_name(a), user_url(username), FALSE, resp, 0)
user(fs, a, username, resp) == LiveOutcome(fs, user_url(username), resp)
user_leagues(fs, a, user_id, season, resp) ==
    LiveOutcome(fs, user_leagues_url(user_id, season), resp)

(***************************************************************************)
(* The client under arbitrary use: any sequence of client calls, each      *)
(* answered by the service in any way, with cache files that an            *)
(* interrupted write may leave cut short.                                  *)
(***************************************************************************)
MaxCalls == 2
MaxDamage == 1

\* Payloads the service may send: null (the service's answer for an unknown
\* id), an empty list (a week not yet played), an empty mapping, a league
\* and a list of rosters.
Payloads ==
    { JNull,
      JList(<<>>),
      JDict(<<>>, <<>>),
      JDict(<<"name", "season">>, <<JStr("Dynasty"), JNum(2024)>>),
      JList(<<JDict(<<"roster_id", "players", "metadata">>,
                    <<JNum(1), JList(<<JStr("4046"), JStr("KC")>>), JNull>>),
              JBool(FALSE)>>) }

\* An HTML error page: not JSON.
NotJson == <<Punct("<"), StrTok("html"), Punct(">")>>

Responses ==
    {Response(TRUE, 200, dumps(p, 0)) : p \in Payloads}
    \cup { Response(TRUE, 404, dumps(JNull, 0)),
           Response(TRUE, 200, NotJson),
           Response(FALSE, 0, <<>>) }

Usernames == {"alice"}
UserIds == {"u1"}
Seasons == {2024}

\* The history of successful fetches: none yet, or the payload of the last.
NoFetch == [some |-> FALSE, val |-> JNull]
Fetch(v) == [some |-> TRUE, val |-> v]

\* call.before is the file of the call's cache key as it was when the call began.
NoCall ==
    [op |-> "none", name |-> "", force |-> FALSE, resp |-> Response(FALSE, 0, <<>>),
     before |-> NoFile, raised |-> FALSE, ret |-> JNull, reqs |-> <<>>]

\* The history after a call on cache key `name` whose request, if it made
\* one, was answered by resp.
Remember(name, resp, r) ==
    IF name # "" /\ r.reqs # <<>> /\ ~fetch(resp).raised
    THEN [fetched EXCEPT ![cache_path(name)] = Fetch(fetch(resp).val)]
    ELSE fetched

\* One client call `op` on cache key `name`, with outcome r.
Completes(op, name, force, resp, r) ==
    /\ calls < MaxCalls
    /\ calls' = calls + 1
    /\ files' = r.fs
    /\ call' = [op |-> op, name |-> name, force |-> force, resp |-> resp,
                before |-> IF name = "" THEN NoFile ELSE files[cache_path(name)],
                raised |-> r.raised, ret |-> r.ret, reqs |-> r.reqs]
    /\ fetched' = Remember(name, resp, r)
    /\ UNCHANGED <<now, api, damaged, tui, rep, ros, look, proc>>

CallLeague ==
    \E force \in BOOLEAN, resp \in Responses :
        Completes("league", league_name(api), force, resp,
                  league(files, api, force, resp, now))

CallUsers ==
    \E force \in BOOLEAN, resp \in Responses :
        Completes("users", users_name(api), force, resp,
                  users(files, api, force, resp, now))

CallRosters ==
    \E force \in BOOLEAN, resp \in Responses :
        Completes("rosters", rosters_name(api), force, resp,
                  rosters(files, api, force, resp, now))

CallMatchups ==
    \E week \in {1, NumWeeks}, force \in BOOLEAN, resp \in Responses :
        Completes("matchups", matchups_name(api, week), force, resp,
                  matchups(files, api, week, force, resp, now))

CallPlayers ==
    \E resp \in Responses :
        Completes("players", "nfl_players", FALSE, resp, players(files, api, resp, now))

CallUser ==
    \E username \in Usernames, resp \in Responses :
        Completes("user", "", FALSE, resp, user(files, api, username, resp))

CallUserLeagues ==
    \E user_id \in UserIds, season \in Seasons, resp \in Responses :
        Completes("user_leagues", "", FALSE, resp,
                  user_leagues(files, api, user_id, season, resp))

\* A write that was interrupted after open(path, "w") or part-way through
\* json.dump leaves a proper prefix of the text.
Damage ==
    \E p \in Paths :
        /\ damaged < MaxDamage
        /\ files[p].exists
        /\ Len(files[p].text) > 0
        /\ \E n \in {0, Len(files[p].text) \div 2, Len(files[p].text) - 1} :
              files' = [files EXCEPT ![p].text = SubSeq(@, 1, n)]
        /\ damaged' = damaged + 1
        /\ call' = NoCall
        /\ UNCHANGED <<now, api, calls, tui, rep, fetched, ros, look, proc>>

\* The SleeperTUI object and the position of its running handler.  pc is
\* "mount" (constructed, on_mount pending), "league", "users", "rosters",
\* "week" (action_refresh_data before that fetch), "idle" (waiting for a key)
\* or "raised" (an exception left the handler).  content is the text last
\* shown; log the URLs requested by the current or last refresh; swallowed
\* the weeks whose exception the inner `except: pass` discarded; checked
\* what the last _cache_is_stale saw and answered.
NoCheck == [done |-> FALSE, absent |-> FALSE, age |-> 0, stale |-> FALSE]
NoTui ==
    [league_id |-> "", pc |-> "off", week |-> 0, content |-> "", log |-> <<>>,
     swallowed |-> {}, checked |-> NoCheck,
     runs |-> 0, failures |-> 0]
\* show_matchups: the week and matchup records it was given, and what it
\* did: raised, or output_lines.
NoOutput == [done |-> FALSE, raised |-> FALSE, lines |-> <<>>]
NoRep == [week |-> 0, data |-> JList(<<>>), out |-> NoOutput]
\* show_rosters: the rosters it was given, and what it did: raised, or the
\* rows of the table.
NoRos == [data |-> JList(<<>>), out |-> [done |-> FALSE, raised |-> FALSE, rows |-> <<>>]]
\* LeagueLookupScreen and main() before they run.
NoLook == [pc |-> "off"]
NoProc == [pc |-> "off"]
\* The other parts of the program at rest.
Idle == ros = NoRos /\ look = NoLook /\ proc = NoProc

Init ==
    /\ files = [p \in Paths |-> NoFile]
    /\ now = 0
    /\ \E id \in LeagueIdInputs : SleeperAPI(id).exit = 0 /\ api = SleeperAPI(id)
    /\ call = NoCall
    /\ calls = 0
    /\ damaged = 0
    /\ tui = NoTui
    /\ rep = NoRep
    /\ fetched = [p \in Paths |-> NoFetch]
    /\ Idle

Next ==
    \/ CallLeague
    \/ CallUsers
    \/ CallRosters
    \/ CallMatchups
    \/ CallPlayers
    \/ CallUser
    \/ CallUserLeagues
    \/ Damage

Spec == Init /\ [][Next]_vars

(***************************************************************************)
(* Properties of the read-through cache (specification Spec).              *)
(***************************************************************************)
CachedOps == {"league", "users", "rosters", "matchups", "players"}
ForcibleOps == {"league", "users", "rosters", "matchups"}
LiveOps == {"user", "user_leagues"}

\* The request of the last call was answered with a 2xx status and a JSON body.
RequestSucceeded == 
    /\ call.resp.transport
    /\ call.resp.status \in 200..299
    /\ loads(call.resp.body).ok

\* The request of the last call failed: transport failure or non-2xx status.
RequestFailed == ~call.resp.transport \/ call.resp.status \notin 200..299

Fetched == loads(call.resp.body).val

\* The last call began with a cache file that parses as JSON.
HadEntry == call.before.exists /\ loads(call.before.text).ok
EntryBefore == loads(call.before.text).val

\* The cache file of the last call's key, now.
EntryFile == files[cache_path(call.name)]

\* C1 (as claimed): a cached-resource call with force=false that finds a cache
\* entry, whatever JSON payload it holds, returns that payload and issues no
\* network request.
C1_HitReturnsEntry ==
    (call.op \in CachedOps /\ ~call.force /\ HadEntry)
        => (~call.raised /\ call.reqs = <<>> /\ call.ret = EntryBefore)

\* C2: league, users, rosters and matchups, called with force=true or with no
\* cache file for the key, issue exactly one request; when it succeeds the
\* entry holds the fetched payload and the fetched payload is returned.
C2_ForcedOrAbsentFetches ==
    (call.op \in ForcibleOps /\ (call.force \/ ~call.before.exists))
        => /\ Len(call.reqs) = 1
           /\ RequestSucceeded =>
                /\ ~call.raised
                /\ call.ret = Fetched
                /\ EntryFile.exists
                /\ loads(EntryFile.text).ok
                /\ loads(EntryFile.text).val = Fetched

\* C2 witness: a forced call over an existing entry returned a fetched payload
\* that differs from the entry it replaced.
C2_Witness ==
    /\ call.op \in ForcibleOps /\ call.force /\ HadEntry
    /\ RequestSucceeded /\ ~call.raised
    /\ call.ret # EntryBefore
    /\ Truthy(EntryBefore)

C4_CorruptIsMiss ==
    /\ \A name \in CacheNames :
          (files[cache_path(name)].exists /\ ~loads(files[cache_path(name)].text).ok)
              => load_cache(files, name) = Return(JNull)
    /\ (call.op \in CachedOps /\ ~call.force /\ call.before.exists /\ ~HadEntry)
          => /\ Len(call.reqs) = 1
             /\ RequestSucceeded =>
                  /\ ~call.raised
                  /\ call.ret = Fetched
                  /\ loads(EntryFile.text).ok
                  /\ loads(EntryFile.text).val = Fetched

\* C4 witness: a force=false call found a corrupt file and replaced it.
C4_Witness ==
    /\ call.op \in CachedOps /\ ~call.force
    /\ call.before.exists /\ ~HadEntry
    /\ RequestSucceeded /\ ~call.raised
    /\ Truthy(Fetched)

\* C5: what a call saved under its key is what load_cache reads back, also
\* when the key already had a file: the file holds the last payload alone.
C5_RoundTrip ==
    (call.op \in CachedOps /\ ~call.raised /\ call.reqs # <<>>)
        => /\ load_cache(files, call.name) = Return(call.ret)
           /\ EntryFile.text = dumps(call.ret, 0)

\* C5 witness: a nested payload was saved over a different earlier entry.
C5_Witness ==
    /\ call.op \in CachedOps /\ ~call.raised /\ call.reqs # <<>>
    /\ HadEntry /\ EntryBefore # call.ret
    /\ call.ret.t = "list" /\ Len(call.ret.items) > 0
    /\ load_cache(files, call.name).val = call.ret

\* The last step was a call on the key of file p whose request succeeded.
FetchedFor(p) ==
    /\ call'.op \in CachedOps
    /\ cache_path(call'.name) = p
    /\ Len(call'.reqs) = 1
    /\ ~call'.raised
    /\ call'.resp.transport /\ call'.resp.status \in 200..299
    /\ loads(call'.resp.body).ok
Interrupted == damaged' # damaged

\* C17: as long as no write was interrupted, every cache file that exists
\* holds exactly the payload of the last successful fetch for its key, and
\* a file is created or changed only by a call on its own key whose request
\* succeeded.
C17_EntryIsLastFetch ==
    /\ [](damaged = 0 =>
            \A p \in Paths :
                files[p].exists =>
                    /\ fetched[p].some
                    /\ files[p].text = dumps(fetched[p].val, 0)
                    /\ loads(files[p].text).ok
                    /\ loads(files[p].text).val = fetched[p].val)
    /\ [][\A p \in Paths :
              (files'[p] # files[p] /\ ~Interrupted) => FetchedFor(p)]_vars

\* C17 witness: a second successful fetch for a key replaced the different
\* payload of the first.
C17_Witness ==
    /\ damaged = 0 /\ calls >= 2
    /\ call.op \in CachedOps /\ HadEntry
    /\ call.reqs # <<>> /\ RequestSucceeded /\ ~call.raised
    /\ Truthy(EntryBefore) /\ EntryBefore # Fetched
    /\ fetched[cache_path(call.name)] = Fetch(Fetched)
    /\ EntryFile.text = dumps(Fetched, 0)

\* The last step was a call of user or user_leagues.
LiveCall == calls' = calls + 1 /\ call'.op \in LiveOps
LiveUrls ==
    {user_url(username) : username \in Usernames}
    \cup {user_leagues_url(user_id, season) : user_id \in UserIds, season \in Seasons}

\* C18: every call of user or user_leagues issues exactly one request, to
\* its own URL, whatever the cache holds; it returns what that request
\* brought or raises with it; no cache file is created or changed by it.
C18_LookupsAreLive ==
    [][LiveCall =>
          /\ Len(call'.reqs) = 1
          /\ call'.reqs[1] \in LiveUrls
          /\ files' = files
          /\ fetched' = fetched
          /\ IF call'.resp.transport /\ call'.resp.status \in 200..299
                 /\ loads(call'.resp.body).ok
             THEN ~call'.raised /\ call'.ret = loads(call'.resp.body).val
             ELSE call'.raised]_vars

\* C18 witness: a user lookup made while the league's entry was cached
\* issued its request and returned a payload that is not the cached one.
C18_Witness ==
    /\ call.op = "user" /\ Len(call.reqs) = 1 /\ ~call.raised
    /\ files[cache_path(league_name(api))].exists
    /\ loads(files[cache_path(league_name(api))].text).ok
    /\ Truthy(loads(files[cache_path(league_name(api))].text).val)
    /\ call.ret # loads(files[cache_path(league_name(api))].text).val

\* The nfl_players file, and whether it holds a player directory: a JSON
\* mapping from player ids to players, possibly an empty one.
DirectoryFile == files[cache_path("nfl_players")]
DirectoryCached ==
    /\ DirectoryFile.exists
    /\ loads(DirectoryFile.text).ok
    /\ loads(DirectoryFile.text).val.t = "dict"

\* C19 (as claimed): once a player directory is cached, no call of the
\* client replaces it: the nfl_players file stays as it is.
C19_DirectoryNeverReplaced ==
    [][(DirectoryCached /\ ~Interrupted)
          => files'[cache_path("nfl_players")] = DirectoryFile]_vars

\* C19, for a directory with at least one player: it is never replaced and
\* players() returns it without a request.
C19_NonEmptyDirectoryKept ==
    [][(DirectoryCached /\ Truthy(loads(DirectoryFile.text).val) /\ ~Interrupted)
          => /\ files'[cache_path("nfl_players")] = DirectoryFile
             /\ (calls' = calls + 1 /\ call'.op = "players")
                    => call'.reqs = <<>> /\ call'.ret = loads(DirectoryFile.text).val]_vars

(***************************************************************************)
(* SleeperTUI: the staleness check at startup and the bulk refresh.  The   *)
(* refresh is one handler; it is modelled one request at a time, the       *)
(* service answering each request as it likes.                             *)
(***************************************************************************)
MaxRuns == 2
MaxFailures == 1

SecondsPerDay == 60 * 60 * 24
StaleDays == 6

\* `file_age_days >= 6` instead of `> 6`.
cache_is_stale_ge(fs, league_id, t) ==
    LET cache_file == fs[cache_path("league_" \o league_id)] IN
    IF ~cache_file.exists THEN TRUE
    ELSE (t - cache_file.mtime) >= StaleDays * SecondsPerDay

\* SleeperTUI._cache_is_stale: (time.time() - st_mtime) / (60 * 60 * 24) > 6,
\* compared without the division.
cache_is_stale(fs, league_id, t) ==
    LET cache_file == fs[cache_path("league_" \o league_id)] IN
    IF ~cache_file.exists THEN TRUE
    ELSE (t - cache_file.mtime) > StaleDays * SecondsPerDay

\* What the staleness check saw: kept for the properties.
StaleCheck(fs, league_id, t) ==
    LET cache_file == fs[cache_path("league_" \o league_id)] IN
    [done |-> TRUE, absent |-> ~cache_file.exists,
     age |-> IF cache_file.exists THEN t - cache_file.mtime ELSE 0,
     stale |-> cache_is_stale(fs, league_id, t)]

\* SleeperTUI.__init__: the client keeps the normalised id, the app the
\* id as given.
NewTui(league_id, t) ==
    [t EXCEPT !.league_id = league_id, !.pc = "mount", !.week = 0, !.content = "",
              !.log = <<>>, !.swallowed = {}, !.runs = @ + 1]

\* The first lines of action_refresh_data.
refresh_begin(t) ==
    [t EXCEPT !.pc = "league", !.content = "Refreshing cache...",
              !.log = <<>>, !.swallowed = {}, !.week = 0]

\* The outer try with a bare `except: pass` around each of the first three
\* fetches: the exception is discarded and the refresh goes on.
refresh_after_swallowing(t, r, nextpc) ==
    [t EXCEPT !.pc = nextpc, !.log = @ \o r.reqs,
              !.week = IF nextpc = "week" THEN 1 ELSE 0]

\* league, users and rosters inside the outer try, which catches
\* AttributeError only: an exception of fetch leaves the handler.
refresh_after(t, r, nextpc) ==
    IF r.raised THEN [t EXCEPT !.pc = "raised", !.log = @ \o r.reqs]
    ELSE [t EXCEPT !.pc = nextpc, !.log = @ \o r.reqs,
                   !.week = IF nextpc = "week" THEN 1 ELSE 0]

\* The loop body without its try/except: the exception leaves the handler.
refresh_after_week_unguarded(t, r) ==
    IF r.raised THEN [t EXCEPT !.pc = "raised", !.log = @ \o r.reqs]
    ELSE IF t.week < NumWeeks THEN [t EXCEPT !.log = @ \o r.reqs, !.week = @ + 1]
    ELSE [t EXCEPT !.log = @ \o r.reqs, !.pc = "idle", !.week = 0,
                   !.content = "Cache refreshed!"]

\* One turn of `for w in range(1, 19)`: the exception of matchups(w) is
\* discarded; after week 18 the handler shows "Cache refreshed!" and ends.
refresh_after_week(t, r) ==
    LET seen == [t EXCEPT !.log = @ \o r.reqs,
                          !.swallowed = IF r.raised THEN @ \cup {t.week} ELSE @]
    IN IF t.week < NumWeeks THEN [seen EXCEPT !.week = @ + 1]
       ELSE [seen EXCEPT !.pc = "idle", !.week = 0, !.content = "Cache refreshed!"]

\* What the service sends for each resource when it answers.
ServerPayload(op) ==
    CASE op = "league" -> JDict(<<"name", "season">>, <<JStr("Dynasty"), JNum(2024)>>)
      [] op = "users" -> JList(<<JDict(<<"user_id">>, <<JStr("u1")>>)>>)
      [] op = "rosters" -> JList(<<JDict(<<"roster_id">>, <<JNum(1)>>)>>)
      [] op = "matchups" -> JList(<<JDict(<<"matchup_id">>, <<JNum(1)>>)>>)

ServerOk(op) == Response(TRUE, 200, dumps(ServerPayload(op), 0))
ServerError == Response(TRUE, 500, NotJson)

\* One request of the refresh, answered: the failure budget bounds how
\* often the service fails.
Answered(op, resp) ==
    \/ resp = ServerOk(op) /\ tui.failures < MaxFailures + 1
    \/ resp = ServerError /\ tui.failures < MaxFailures

Charge(t, resp) == [t EXCEPT !.failures = IF resp = ServerError THEN @ + 1 ELSE @]

\* on_mount without its `if self._cache_is_stale()`: every start refreshes.
OnMount_always ==
    /\ tui.pc = "mount"
    /\ tui' = refresh_begin([tui EXCEPT !.checked = StaleCheck(files, tui.league_id, now)])
    /\ UNCHANGED <<files, now, api, call, calls, damaged, rep, fetched, ros, look, proc>>

\* on_mount: refresh when the cache is stale.
OnMount ==
    /\ tui.pc = "mount"
    /\ LET seen == [tui EXCEPT !.checked = StaleCheck(files, tui.league_id, now)] IN
       tui' = IF cache_is_stale(files, tui.league_id, now)
              THEN refresh_begin(seen)
              ELSE [seen EXCEPT !.pc = "idle"]
    /\ UNCHANGED <<files, now, api, call, calls, damaged, rep, fetched, ros, look, proc>>

\* The "r" key binding.
KeyRefresh ==
    /\ tui.pc = "idle"
    /\ tui.runs < MaxRuns
    /\ tui' = refresh_begin([tui EXCEPT !.runs = @ + 1])
    /\ UNCHANGED <<files, now, api, call, calls, damaged, rep, fetched, ros, look, proc>>

RefreshLeague ==
    /\ tui.pc = "league"
    /\ \E resp \in {ServerOk("league"), ServerError} :
          /\ Answered("league", resp)
          /\ LET r == league(files, api, TRUE, resp, now) IN
                /\ files' = r.fs
                /\ fetched' = Remember(league_name(api), resp, r)
                /\ tui' = Charge(refresh_after(tui, r, "users"), resp)
    /\ UNCHANGED <<now, api, call, calls, damaged, rep, ros, look, proc>>

RefreshUsers ==
    /\ tui.pc = "users"
    /\ \E resp \in {ServerOk("users"), ServerError} :
          /\ Answered("users", resp)
          /\ LET r == users(files, api, TRUE, resp, now) IN
                /\ files' = r.fs
                /\ fetched' = Remember(users_name(api), resp, r)
                /\ tui' = Charge(refresh_after(tui, r, "rosters"), resp)
    /\ UNCHANGED <<now, api, call, calls, damaged, rep, ros, look, proc>>

RefreshRosters ==
    /\ tui.pc = "rosters"
    /\ \E resp \in {ServerOk("rosters"), ServerError} :
          /\ Answered("rosters", resp)
          /\ LET r == rosters(files, api, TRUE, resp, now) IN
                /\ files' = r.fs
                /\ fetched' = Remember(rosters_name(api), resp, r)
                /\ tui' = Charge(refresh_after(tui, r, "week"), resp)
    /\ UNCHANGED <<now, api, call, calls, damaged, rep, ros, look, proc>>

RefreshWeek ==
    /\ tui.pc = "week"
    /\ \E resp \in {ServerOk("matchups"), ServerError} :
          /\ Answered("matchups", resp)
          /\ LET r == matchups(files, api, tui.week, TRUE, resp, now) IN
                /\ files' = r.fs
                /\ fetched' = Remember(matchups_name(api, tui.week), resp, r)
                /\ tui' = Charge(refresh_after_week(tui, r), resp)
    /\ UNCHANGED <<now, api, call, calls, damaged, rep, ros, look, proc>>

\* Time that may pass between two runs of the app: a second, exactly six
\* days, a second more than six days.
Elapsed == {1, StaleDays * SecondsPerDay, StaleDays * SecondsPerDay + 1}

\* The app is quit (or has died) and, some time later, main() starts it
\* again on the same id.
Restart ==
    /\ tui.pc \in {"idle", "raised"}
    /\ tui.runs < MaxRuns
    /\ \E d \in Elapsed : now' = now + d
    /\ tui' = NewTui(tui.league_id, tui)
    /\ UNCHANGED <<files, api, call, calls, damaged, rep, fetched, ros, look, proc>>

InitTUI ==
    /\ files = [p \in Paths |-> NoFile]
    /\ now = 0
    /\ \E id \in LeagueIdInputs :
          /\ SleeperAPI(id).exit = 0
          /\ api = SleeperAPI(id)
          /\ tui = NewTui(id, NoTui)
    /\ call = NoCall
    /\ calls = 0
    /\ damaged = 0
    /\ rep = NoRep
    /\ fetched = [p \in Paths |-> NoFetch]
    /\ Idle

NextTUI ==
    \/ OnMount
    \/ KeyRefresh
    \/ RefreshLeague
    \/ RefreshUsers
    \/ RefreshRosters
    \/ RefreshWeek
    \/ Restart

SpecTUI == InitTUI /\ [][NextTUI]_vars

(***************************************************************************)
(* Properties of the staleness check and the refresh (SpecTUI).            *)
(***************************************************************************)
\* C6: the staleness check answers stale exactly when the league cache file
\* it looks at is absent or older than six days; at six days or less, not.
C6_StaleAfterSixDays ==
    tui.checked.done =>
        (tui.checked.stale <=>
            (tui.checked.absent \/ tui.checked.age > 6 * (24 * 60 * 60)))

\* C6 witness: a check of a file exactly six days old answered not stale.
C6_Witness ==
    /\ tui.checked.done /\ ~tui.checked.absent
    /\ tui.checked.age = 6 * (24 * 60 * 60)
    /\ ~tui.checked.stale
    /\ tui.pc = "idle"

\* The file the startup check looks at, and what "stale" means for it.
LeagueFile == files[cache_path("league_" \o tui.league_id)]
AbsentOrOlderThanSixDays ==
    ~LeagueFile.exists \/ now - LeagueFile.mtime > 6 * (24 * 60 * 60)
Mounting == tui.pc = "mount" /\ tui'.pc # "mount"
SweepStarted == tui'.pc = "league" /\ tui'.content = "Refreshing cache..."

\* C16: at startup the refresh begins exactly when the league cache file is
\* absent or older than six days; otherwise the app goes idle with no
\* request issued and every cache file as it was.
C16_StartupGating ==
    [][Mounting =>
          /\ SweepStarted <=> AbsentOrOlderThanSixDays
          /\ ~AbsentOrOlderThanSixDays =>
                /\ tui'.pc = "idle"
                /\ tui'.log = <<>>
                /\ files' = files]_vars

\* C16 witness: a start over a league cache file younger than six days went
\* idle without a request, the files of the earlier refresh still in place.
C16_Witness ==
    /\ tui.pc = "idle" /\ tui.runs = 2
    /\ tui.checked.done /\ ~tui.checked.absent /\ tui.checked.age = 1
    /\ tui.log = <<>>
    /\ \A w \in Weeks : files[cache_path(matchups_name(api, w))].exists

\* The file league(force=true) writes, and the states in which the league
\* fetch of the current or last refresh has succeeded: the refresh is past
\* its first request and no time has passed since.
WrittenLeagueFile == files[cache_path(league_name(api))]
LeagueFetchSucceeded ==
    \/ tui.pc \in {"users", "rosters", "week"}
    \/ tui.pc \in {"idle", "raised"} /\ Len(tui.log) >= 2
WrittenEntryFresh ==
    WrittenLeagueFile.exists /\ now - WrittenLeagueFile.mtime <= 6 * (24 * 60 * 60)

\* C21 (as claimed): for every id the constructor accepts the staleness
\* check reads the file league() writes; once the league fetch of a refresh
\* has succeeded the cache is not stale; and a start that finds the written
\* league entry no older than six days does not refresh.
C21_RefreshClearsStaleness ==
    /\ [](tui.pc # "off" =>
            /\ cache_path("league_" \o tui.league_id) = cache_path(league_name(api))
            /\ LeagueFetchSucceeded => ~AbsentOrOlderThanSixDays)
    /\ [][(Mounting /\ WrittenEntryFresh) => tui'.pc = "idle"]_vars

\* C21, for an id that is already in the constructor's normal form.
C21_NormalFormIdClearsStaleness ==
    /\ []((tui.pc # "off" /\ tui.league_id = api.league_id) =>
            /\ cache_path("league_" \o tui.league_id) = cache_path(league_name(api))
            /\ LeagueFetchSucceeded => ~AbsentOrOlderThanSixDays)
    /\ [][(Mounting /\ WrittenEntryFresh /\ tui.league_id = api.league_id)
             => tui'.pc = "idle"]_vars

\* The requests of a whole refresh, in order.
RECURSIVE WeekUrls(_)
WeekUrls(w) ==
    IF w > NumWeeks THEN <<>>
    ELSE <<BASE_URL \o "/league/" \o api.league_id \o "/matchups/" \o ToString(w)>>
         \o WeekUrls(w + 1)

FullRefresh ==
    << BASE_URL \o "/league/" \o api.league_id,
       BASE_URL \o "/league/" \o api.league_id \o "/users",
       BASE_URL \o "/league/" \o api.league_id \o "/rosters" >> \o WeekUrls(1)

\* The cache file the refresh is about to fetch for, a step of the refresh
\* whose request failed, and the files of users, rosters and the weeks.
SweepFile ==
    CASE tui.pc = "league" -> cache_path(league_name(api))
      [] tui.pc = "users" -> cache_path(users_name(api))
      [] tui.pc = "rosters" -> cache_path(rosters_name(api))
      [] tui.pc = "week" -> cache_path(matchups_name(api, tui.week))
      [] OTHER -> ""
RequestFailedInStep == tui'.failures > tui.failures
LaterFiles ==
    {cache_path(users_name(api)), cache_path(rosters_name(api))}
    \cup {cache_path(matchups_name(api, w)) : w \in Weeks}

\* C22: the refresh requests league, users, rosters and the weeks one at a
\* time in that order, each step writing at most the file of its own
\* request; a failed league, users or rosters request leaves the handler at
\* once, with no file changed by that step, the text still "Refreshing
\* cache..." and no later request made.
C22_SweepAbortsPartWay ==
    /\ [](/\ tui.pc = "users" => tui.log = SubSeq(FullRefresh, 1, 1)
          /\ tui.pc = "rosters" => tui.log = SubSeq(FullRefresh, 1, 2)
          /\ tui.pc = "raised" =>
                /\ Len(tui.log) \in 1..3
                /\ tui.log = SubSeq(FullRefresh, 1, Len(tui.log))
                /\ tui.content = "Refreshing cache...")
    /\ [][/\ \A p \in Paths : files'[p] # files[p] => p = SweepFile
          /\ (tui.pc \in {"league", "users", "rosters"} /\ RequestFailedInStep) =>
                /\ tui'.pc = "raised"
                /\ files' = files
          /\ (tui.pc \in {"league", "users", "rosters"} /\ tui'.pc # tui.pc
                 /\ ~RequestFailedInStep) =>
                files'[SweepFile].exists /\ files'[SweepFile].mtime = now]_vars

\* C22 witness: the users request failed after the league entry was
\* written: the handler was left, the cache is not stale, and no entry for
\* users, rosters or any week exists.
C22_Witness ==
    /\ tui.pc = "raised" /\ Len(tui.log) = 2
    /\ LeagueFile.exists /\ LeagueFile.mtime = now
    /\ ~AbsentOrOlderThanSixDays
    /\ \A p \in LaterFiles : ~files[p].exists

\* C7: the refresh requests league, users, rosters and weeks 1..18 in that
\* order, whatever the cache holds; no failure of a week's request leaves
\* the handler or stops the loop; it ends showing "Cache refreshed!".
C7_SweepOutlivesWeekFailures ==
    /\ tui.pc = "week" =>
          /\ tui.week \in Weeks
          /\ tui.log = SubSeq(FullRefresh, 1, 3 + tui.week - 1)
    /\ tui.pc = "raised" => Len(tui.log) <= 3
    /\ (tui.pc = "idle" /\ tui.swallowed # {}) =>
          /\ tui.content = "Cache refreshed!"
          /\ tui.log = FullRefresh
    /\ (tui.pc = "idle" /\ tui.content = "Cache refreshed!") => tui.log = FullRefresh

\* C7 witness: a refresh over an existing cache ended "Cache refreshed!"
\* after a week before the last had failed and a later week was written.
C7_Witness ==
    /\ tui.pc = "idle" /\ tui.content = "Cache refreshed!"
    /\ Len(tui.log) = 3 + NumWeeks
    /\ \E w \in tui.swallowed :
          /\ w < NumWeeks
          /\ files[cache_path(matchups_name(api, w))].exists
          /\ files[cache_path(matchups_name(api, w))].mtime < now
          /\ files[cache_path(matchups_name(api, w + 1))].mtime = now

(***************************************************************************)
(* SleeperTUI.show_matchups.  Its inputs are what the client calls         *)
(* return: the week's matchup records, the rosters, the users and the      *)
(* player directory, all JSON values.                                      *)
(***************************************************************************)
\* d.get(key, default) and `key in d` on a JSON object.
has(d, key) == indexOf(d.keys, key, 1) # 0
get(d, key, default) ==
    IF has(d, key) THEN d.items[indexOf(d.keys, key, 1)] ELSE default

\* A dict built by a comprehension, as the sequence of its (k, v) pairs in
\* the order they were stored; a later pair with the same key wins.
pairs_has(pairs, key) == \E i \in 1..Len(pairs) : pairs[i].k = key
pairs_get(pairs, key, default) ==
    IF pairs_has(pairs, key)
    THEN pairs[CHOOSE i \in 1..Len(pairs) :
                  /\ pairs[i].k = key
                  /\ \A j \in (i + 1)..Len(pairs) : pairs[j].k # key].v
    ELSE default

\* str(v) as an f-string field shows it.
str(v) ==
    CASE v.t = "str" -> v.s
      [] v.t = "num" -> ToString(v.n)
      [] v.t = "null" -> "None"
      [] v.t = "bool" -> IF v.n = 1 THEN "True" ELSE "False"
      [] OTHER -> "?"

\* c * k, f"{s:<width}" and f"{s:>width}" (no field is wider than a rule).
RECURSIVE times(_, _)
times(c, k) == IF k = 0 THEN "" ELSE c \o times(c, k - 1)

\* f"{x:.1f}" for the whole-number point values of the model.
fixed1(v) == ToString(v.n) \o ".0"

RuleWidth == 70
OwnerWidth == 20
RecordWidth == 18
PlayerWidth == 25
PointsWidth == 6
DefenseMaxLen == 3

Blanks == times(" ", RuleWidth)
DoubleRule == times("=", RuleWidth)
SingleRule == times("-", RuleWidth)
ljust(text, width) ==
    IF Len(text) >= width THEN text ELSE text \o SubSeq(Blanks, 1, width - Len(text))
rjust(text, width) ==
    IF Len(text) >= width THEN text ELSE SubSeq(Blanks, 1, width - Len(text)) \o text

\* users = {u["user_id"]: u["display_name"] for u in self.api.users()}
users_by_id(users_data) ==
    [i \in 1..Len(users_data.items) |->
        [k |-> get(users_data.items[i], "user_id", JNull),
         v |-> get(users_data.items[i], "display_name", JNull)]]

\* roster_to_owner = {r["roster_id"]: users.get(r["owner_id"], "Unknown") ...}
roster_to_owner(rosters_data, users_data) ==
    [i \in 1..Len(rosters_data.items) |->
        [k |-> get(rosters_data.items[i], "roster_id", JNull),
         v |-> pairs_get(users_by_id(users_data),
                         get(rosters_data.items[i], "owner_id", JNull),
                         JStr("Unknown"))]]

\* roster_settings = {r["roster_id"]: r.get("settings", {}) for r in rosters}
roster_settings(rosters_data) ==
    [i \in 1..Len(rosters_data.items) |->
        [k |-> get(rosters_data.items[i], "roster_id", JNull),
         v |-> get(rosters_data.items[i], "settings", JDict(<<>>, <<>>))]]

\* The subscripts and attribute calls of the mapping code that raise:
\* u["user_id"], u["display_name"], r["roster_id"], r["owner_id"] on a
\* missing key, and .get on a metadata or settings that is not a mapping.
mappings_raise(rosters_data, users_data) ==
    \/ \E i \in 1..Len(users_data.items) :
          ~has(users_data.items[i], "user_id") \/ ~has(users_data.items[i], "display_name")
    \/ \E i \in 1..Len(rosters_data.items) :
          \/ ~has(rosters_data.items[i], "roster_id")
          \/ ~has(rosters_data.items[i], "owner_id")
          \/ get(rosters_data.items[i], "metadata", JDict(<<>>, <<>>)).t # "dict"

\* The `if first and last` of format_player_name joined to the defense test
\* by `or`: an entry without a name falls through to the defense rule.
format_player_name_fallthrough(player_id, players_data) ==
    LET p == get(players_data, str(player_id), JNull)
        first_name == get(p, "first_name", JStr(""))
        first == IF Truthy(first_name) THEN SubSeq(first_name.s, 1, 1) ELSE ""
        last == get(p, "last_name", JStr(""))
        pos == get(p, "position", JStr(""))
    IN IF player_id.t = "str" /\ has(players_data, player_id.s)
          /\ first # "" /\ Truthy(last)
       THEN str(pos) \o ": " \o first \o ". " \o str(last)
       ELSE IF player_id.t = "str" /\ Len(player_id.s) <= DefenseMaxLen
       THEN "D/ST: " \o player_id.s
       ELSE str(player_id)

\* format_player_name of show_matchups.
format_player_name(player_id, players_data) ==
    IF player_id.t = "str" /\ has(players_data, player_id.s)
    THEN LET p == get(players_data, player_id.s, JNull)
             first_name == get(p, "first_name", JStr(""))
             first == IF Truthy(first_name) THEN SubSeq(first_name.s, 1, 1) ELSE ""
             last == get(p, "last_name", JStr(""))
             pos == get(p, "position", JStr(""))
         IN IF first # "" /\ Truthy(last)
            THEN str(pos) \o ": " \o first \o ". " \o str(last)
            ELSE str(player_id)
    ELSE IF player_id.t = "str" /\ Len(player_id.s) <= DefenseMaxLen
    THEN "D/ST: " \o player_id.s
    ELSE str(player_id)

\* Group by matchup_id: the keys of matchups_by_id in insertion order, and
\* the records stored under one key, in input order.
RECURSIVE group_keys(_, _, _)
group_keys(records, i, seen) ==
    IF i > Len(records) THEN seen
    ELSE LET matchup_id == get(records[i], "matchup_id", JNull) IN
         group_keys(records, i + 1,
                    IF \E j \in 1..Len(seen) : seen[j] = matchup_id
                    THEN seen ELSE Append(seen, matchup_id))

RECURSIVE group_of(_, _, _)
group_of(records, matchup_id, i) ==
    IF i > Len(records) THEN <<>>
    ELSE (IF get(records[i], "matchup_id", JNull) = matchup_id
          THEN <<records[i]>> ELSE <<>>)
         \o group_of(records, matchup_id, i + 1)

\* `if len(teams) != 2: continue` is dropped: every group with at least
\* two records is rendered from its first two.
renders_group_any(teams) == Len(teams) >= 2

\* `if len(teams) != 2: continue`
renders_group(teams) == Len(teams) = 2

\* roster_to_owner[team["roster_id"]]: a subscript instead of .get.
owner_of_subscript(team, rosters_data, users_data) ==
    IF pairs_has(roster_to_owner(rosters_data, users_data), get(team, "roster_id", JNull))
    THEN pairs_get(roster_to_owner(rosters_data, users_data),
                   get(team, "roster_id", JNull), JStr("Unknown"))
    ELSE [t |-> "raise", n |-> 0, s |-> "KeyError", keys |-> <<>>, items |-> <<>>]

\* owner = roster_to_owner.get(team["roster_id"], "Unknown")
owner_of(team, rosters_data, users_data) ==
    pairs_get(roster_to_owner(rosters_data, users_data),
              get(team, "roster_id", JNull), JStr("Unknown"))

\* settings = roster_settings.get(team["roster_id"], {})
\* record = f"{settings.get('wins', 0)}-{settings.get('losses', 0)}"
record_of(team, rosters_data) ==
    LET settings == pairs_get(roster_settings(rosters_data),
                              get(team, "roster_id", JNull), JDict(<<>>, <<>>))
    IN str(get(settings, "wins", JNum(0))) \o "-" \o str(get(settings, "losses", JNum(0)))

\* What raises while one group of two is rendered: team["roster_id"] on a
\* missing key, .get on settings that are not a mapping, a format width on
\* an owner that is not a string, ":.1f" on a point value that is no number.
block_raises(team1, team2, rosters_data, users_data) ==
    \E team \in {team1, team2} :
        \/ ~has(team, "roster_id")
        \/ owner_of(team, rosters_data, users_data).t # "str"
        \/ pairs_get(roster_settings(rosters_data), get(team, "roster_id", JNull),
                     JDict(<<>>, <<>>)).t # "dict"
        \/ get(team, "starters", JList(<<>>)).t # "list"
        \/ get(team, "starters_points", JList(<<>>)).t # "list"
        \/ \E i \in 1..Len(get(team, "starters_points", JList(<<>>)).items) :
              /\ i <= Len(get(team1, "starters", JList(<<>>)).items)
                     \/ i <= Len(get(team2, "starters", JList(<<>>)).items)
              /\ get(team, "starters_points", JList(<<>>)).items[i].t # "num"
        \/ get(team, "points", JNum(0)).t # "num"

\* One line of the body: the i-th starter and point value of each side.
RECURSIVE player_lines(_, _, _, _, _, _, _)
player_lines(i, max_starters, starters1, points1, starters2, points2, players_data) ==
    IF i > max_starters THEN <<>>
    ELSE LET player1 == IF i <= Len(starters1)
                        THEN format_player_name(starters1[i], players_data) ELSE ""
             pts1 == IF i <= Len(points1) THEN fixed1(points1[i]) ELSE ""
             player2 == IF i <= Len(starters2)
                        THEN format_player_name(starters2[i], players_data) ELSE ""
             pts2 == IF i <= Len(points2) THEN fixed1(points2[i]) ELSE ""
         IN << ljust(player1, PlayerWidth) \o " " \o rjust(pts1, PointsWidth) \o " | "
               \o ljust(player2, PlayerWidth) \o " " \o rjust(pts2, PointsWidth) >>
            \o player_lines(i + 1, max_starters, starters1, points1,
                            starters2, points2, players_data)

\* The lines appended for one group of two records.
block(team1, team2, rosters_data, users_data, players_data) ==
    LET owner1 == owner_of(team1, rosters_data, users_data)
        owner2 == owner_of(team2, rosters_data, users_data)
        record1 == record_of(team1, rosters_data)
        record2 == record_of(team2, rosters_data)
        starters1 == get(team1, "starters", JList(<<>>)).items
        points1 == get(team1, "starters_points", JList(<<>>)).items
        starters2 == get(team2, "starters", JList(<<>>)).items
        points2 == get(team2, "starters_points", JList(<<>>)).items
        max_starters == IF Len(starters1) >= Len(starters2)
                        THEN Len(starters1) ELSE Len(starters2)
        total1 == get(team1, "points", JNum(0))
        total2 == get(team2, "points", JNum(0))
    IN << "\n" \o DoubleRule,
          "Owner: " \o ljust(str(owner1), OwnerWidth) \o " | Owner: " \o str(owner2),
          "Record: " \o ljust(record1, RecordWidth) \o " | Record: " \o record2,
          SingleRule >>
       \o player_lines(1, max_starters, starters1, points1, starters2, points2,
                       players_data)
       \o << SingleRule,
             ljust("Total Points:", PlayerWidth) \o " " \o rjust(fixed1(total1), PointsWidth)
             \o " | " \o ljust("Total Points:", PlayerWidth) \o " "
             \o rjust(fixed1(total2), PointsWidth) >>

\* The loop over matchups_by_id.items(), from the k-th key on.
RECURSIVE blocks_from(_, _, _, _, _, _)
blocks_from(keys, k, records, rosters_data, users_data, players_data) ==
    IF k > Len(keys) THEN <<>>
    ELSE LET teams == group_of(records, keys[k], 1) IN
         (IF renders_group(teams)
          THEN block(teams[1], teams[2], rosters_data, users_data, players_data)
          ELSE <<>>)
         \o blocks_from(keys, k + 1, records, rosters_data, users_data, players_data)

\* An exception leaves show_matchups: from the mappings, or from a group
\* that is rendered.
show_matchups_raises(records, rosters_data, users_data) ==
    \/ mappings_raise(rosters_data, users_data)
    \/ \E k \in 1..Len(group_keys(records, 1, <<>>)) :
          LET teams == group_of(records, group_keys(records, 1, <<>>)[k], 1) IN
          /\ renders_group(teams)
          /\ block_raises(teams[1], teams[2], rosters_data, users_data)

\* show_matchups(week): output_lines, which the handler joins with "\n" and
\* shows; nothing is shown when an exception leaves it.
show_matchups(week, data, rosters_data, users_data, players_data) ==
    IF show_matchups_raises(data.items, rosters_data, users_data)
    THEN [done |-> TRUE, raised |-> TRUE, lines |-> <<>>]
    ELSE [done |-> TRUE, raised |-> FALSE,
          lines |-> <<"Week " \o ToString(week) \o " Matchups\n">>
                    \o blocks_from(group_keys(data.items, 1, <<>>), 1, data.items,
                                   rosters_data, users_data, players_data)]

(***************************************************************************)
(* The matchup report on bounded inputs: one league's users, rosters and   *)
(* player directory, and every sequence of at most MaxRecords matchup      *)
(* records over the matchup ids and roster ids below.                      *)
(***************************************************************************)
MaxRecords == 4

UsersData ==
    JList(<< JDict(<<"user_id", "display_name">>, <<JStr("u1"), JStr("alice")>>),
             JDict(<<"user_id", "display_name">>, <<JStr("u2"), JStr("bob")>>) >>)

\* Roster 1 is complete; the owner of roster 2 is no user; roster 3 has no
\* settings; no roster has the id 9.
RostersData ==
    JList(<< JDict(<<"roster_id", "owner_id", "settings", "metadata">>,
                   <<JNum(1), JStr("u1"),
                     JDict(<<"wins", "losses">>, <<JNum(3), JNum(1)>>),
                     JDict(<<"team_name">>, <<JStr("Aces")>>)>>),
             JDict(<<"roster_id", "owner_id", "settings", "metadata">>,
                   <<JNum(2), JStr("u9"),
                     JDict(<<"wins", "losses">>, <<JNum(2), JNum(5)>>),
                     JDict(<<>>, <<>>)>>),
             JDict(<<"roster_id", "owner_id">>, <<JNum(3), JStr("u2")>>) >>)

\* Directory entries with both names, with an empty first name, with no
\* names at all and with no last name.
PlayersData ==
    JDict(<<"4046", "17", "88", "DEN", "5555">>,
          << JDict(<<"first_name", "last_name", "position">>,
                   <<JStr("Travis"), JStr("Kelce"), JStr("TE")>>),
             JDict(<<"first_name", "last_name", "position">>,
                   <<JStr("Patrick"), JStr("Mahomes"), JStr("QB")>>),
             JDict(<<"first_name", "last_name", "position">>,
                   <<JStr(""), JStr("Smith"), JStr("WR")>>),
             JDict(<<"position">>, <<JStr("DEF")>>),
             JDict(<<"first_name", "position">>, <<JStr("Joe"), JStr("K")>>) >>)

\* The lineup each roster id brings to a matchup record.
StartersOf(roster_id) ==
    CASE roster_id = 1 -> <<JStr("4046"), JStr("KC"), JStr("9999")>>
      [] roster_id = 2 -> <<JStr("17"), JStr("88"), JStr("SEA"), JStr("DEN")>>
      [] roster_id = 3 -> <<JStr("5555"), JNum(12), JStr("ABCD")>>
      [] OTHER -> <<>>

MatchupRecord(matchup_id, roster_id) ==
    CASE roster_id = 1 ->
            JDict(<<"matchup_id", "roster_id", "starters", "starters_points", "points">>,
                  <<matchup_id, JNum(1), JList(StartersOf(1)),
                    JList(<<JNum(10), JNum(7), JNum(0)>>), JNum(17)>>)
      [] roster_id = 2 ->
            JDict(<<"matchup_id", "roster_id", "starters", "starters_points", "points">>,
                  <<matchup_id, JNum(2), JList(StartersOf(2)),
                    JList(<<JNum(5), JNum(3)>>), JNum(8)>>)
      [] roster_id = 3 ->
            JDict(<<"matchup_id", "roster_id", "starters", "points">>,
                  <<matchup_id, JNum(3), JList(StartersOf(3)), JNum(0)>>)
      [] OTHER ->
            JDict(<<"matchup_id", "roster_id", "starters", "starters_points">>,
                  <<matchup_id, JNum(roster_id), JList(<<>>), JList(<<>>)>>)

MatchupIds == {JNum(1), JNum(2)}
RosterIds == {1, 2, 3, 9}

\* The records a week is drawn from: every roster id under two matchup ids,
\* and a record whose matchup_id is null.
RecordKinds ==
    {<<matchup_id, roster_id>> : matchup_id \in MatchupIds, roster_id \in RosterIds}
    \cup {<<JNull, 1>>}

InitReport ==
    /\ files = [p \in Paths |-> NoFile]
    /\ now = 0
    /\ api = SleeperAPI("7")
    /\ call = NoCall
    /\ calls = 0
    /\ damaged = 0
    /\ tui = NoTui
    /\ fetched = [p \in Paths |-> NoFetch]
    /\ Idle
    /\ \E n \in 0..MaxRecords :
          \E kinds \in [1..n -> RecordKinds] :
              rep = [week |-> NumWeeks,
                     data |-> JList([i \in 1..n |->
                                        MatchupRecord(kinds[i][1], kinds[i][2])]),
                     out |-> NoOutput]

ShowMatchups ==
    /\ ~rep.out.done
    /\ rep' = [rep EXCEPT !.out = show_matchups(rep.week, rep.data, RostersData,
                                                UsersData, PlayersData)]
    /\ UNCHANGED <<files, now, api, call, calls, damaged, tui, fetched, ros, look, proc>>

NextReport == ShowMatchups

SpecReport == InitReport /\ [][NextReport]_vars

(***************************************************************************)
(* The report read back: the week's records grouped by matchup_id, the     *)
(* blocks found in the output by their opening rule, and what the league's *)
(* rosters, users and player directory say each field of a block shows.    *)
(***************************************************************************)
Records == rep.data.items
Lines == rep.out.lines
MatchupIdAt(i) == get(Records[i], "matchup_id", JNull)
GroupAt(i) == {j \in 1..Len(Records) : MatchupIdAt(j) = MatchupIdAt(i)}
IsFirstOfGroup(i) == \A j \in GroupAt(i) : i <= j
PairFirsts == {i \in 1..Len(Records) : IsFirstOfGroup(i) /\ Cardinality(GroupAt(i)) = 2}
SecondOf(i) == CHOOSE j \in GroupAt(i) : j # i
Sides(i) == <<i, SecondOf(i)>>

BlockStarts == {l \in 1..Len(Lines) : Lines[l] = "\n" \o DoubleRule}
Rank(S, x) == Cardinality({y \in S : y <= x})
BlockOf(i) == CHOOSE l \in BlockStarts : Rank(BlockStarts, l) = Rank(PairFirsts, i)
BlockEnd(l) ==
    IF \E m \in BlockStarts : m > l
    THEN (CHOOSE m \in BlockStarts : m > l /\ \A k \in BlockStarts : k > l => m <= k) - 1
    ELSE Len(Lines)

RostersOf(i) ==
    {r \in 1..Len(RostersData.items) :
        get(RostersData.items[r], "roster_id", JNull) = get(Records[i], "roster_id", JNull)}
OwnersOf(i) ==
    {u \in 1..Len(UsersData.items) :
        \E r \in RostersOf(i) :
            get(UsersData.items[u], "user_id", JNull)
                = get(RostersData.items[r], "owner_id", JNull)}
SettingsOf(i) ==
    {get(RostersData.items[r], "settings", JNull) :
        r \in {q \in RostersOf(i) : has(RostersData.items[q], "settings")}}
ExpectedOwner(i) ==
    IF OwnersOf(i) = {} THEN "Unknown"
    ELSE get(UsersData.items[CHOOSE u \in OwnersOf(i) : TRUE], "display_name", JNull).s
Counter(settings, key) == IF has(settings, key) THEN ToString(get(settings, key, JNull).n) ELSE "0"
ExpectedRecord(i) ==
    IF SettingsOf(i) = {} THEN "0-0"
    ELSE LET settings == CHOOSE v \in SettingsOf(i) : TRUE
         IN Counter(settings, "wins") \o "-" \o Counter(settings, "losses")
StartersAt(i) == get(Records[i], "starters", JList(<<>>)).items
BodyLength(i) ==
    IF Len(StartersAt(i)) >= Len(StartersAt(SecondOf(i)))
    THEN Len(StartersAt(i)) ELSE Len(StartersAt(SecondOf(i)))
HeaderLines == 4
FooterLines == 2

\* C8: once the report is shown no error has left it, it has one block per
\* group of exactly two records and nothing else after its title, and the
\* blocks stand in the order in which their groups first appear: the k-th
\* block carries the owners and records of the k-th such group and spans
\* that group's lines only.
C8_PairsRenderedInOrder ==
    rep.out.done =>
        /\ ~rep.out.raised
        /\ Cardinality(BlockStarts) = Cardinality(PairFirsts)
        /\ IF PairFirsts = {} THEN Len(Lines) = 1 ELSE 2 \in BlockStarts
        /\ \A i \in PairFirsts :
              LET l == BlockOf(i) IN
              /\ Lines[l + 1] = "Owner: " \o ljust(ExpectedOwner(i), OwnerWidth)
                                \o " | Owner: " \o ExpectedOwner(SecondOf(i))
              /\ Lines[l + 2] = "Record: " \o ljust(ExpectedRecord(i), RecordWidth)
                                \o " | Record: " \o ExpectedRecord(SecondOf(i))
              /\ BlockEnd(l) - l + 1 = HeaderLines + BodyLength(i) + FooterLines

\* C8 witness: a shown report whose week has a group of one record that
\* appears before a group of two, and exactly the one block.
C8_Witness ==
    /\ rep.out.done
    /\ Cardinality(BlockStarts) = 1
    /\ \E i \in PairFirsts :
          \E j \in 1..Len(Records) : j < i /\ Cardinality(GroupAt(j)) = 1

\* The name columns of the body line of starter slot s in the block of the
\* group that starts at record i.
NameColumn(side) == IF side = 1 THEN 1 ELSE PlayerWidth + PointsWidth + 5
NameField(i, side, slot) ==
    SubSeq(Lines[BlockOf(i) + HeaderLines - 1 + slot],
           NameColumn(side), NameColumn(side) + PlayerWidth - 1)

InDirectory(id) == id.t = "str" /\ has(PlayersData, id.s)
Entry(id) == get(PlayersData, id.s, JNull)
HasBothNames(id) ==
    /\ InDirectory(id)
    /\ has(Entry(id), "first_name") /\ get(Entry(id), "first_name", JNull).s # ""
    /\ has(Entry(id), "last_name") /\ get(Entry(id), "last_name", JNull).s # ""
FullName(id) ==
    get(Entry(id), "position", JStr("")).s \o ": "
    \o SubSeq(get(Entry(id), "first_name", JNull).s, 1, 1) \o ". "
    \o get(Entry(id), "last_name", JNull).s
IsShortString(id) == id.t = "str" /\ Len(id.s) <= DefenseMaxLen
RawId(id) == IF id.t = "str" THEN id.s ELSE ToString(id.n)
ThreeWayName(id) ==
    IF HasBothNames(id) THEN FullName(id)
    ELSE IF IsShortString(id) THEN "D/ST: " \o id.s
    ELSE RawId(id)
FourWayName(id) ==
    IF HasBothNames(id) THEN FullName(id)
    ELSE IF InDirectory(id) THEN RawId(id)
    ELSE IF IsShortString(id) THEN "D/ST: " \o id.s
    ELSE RawId(id)

\* C9 as stated: every starter of a rendered block shows the name of the
\* three-way rule: position, initial and last name for a directory entry
\* with both names, else "D/ST: <id>" for a string of at most 3 characters,
\* else the raw id.
C9_ThreeWayRule ==
    rep.out.done =>
        \A i \in PairFirsts : \A side \in 1..2 :
            \A slot \in 1..Len(StartersAt(Sides(i)[side])) :
                NameField(i, side, slot)
                    = ljust(ThreeWayName(StartersAt(Sides(i)[side])[slot]), PlayerWidth)

\* C9 amended: every starter of a rendered block shows position, initial
\* and last name for a directory entry with both names; the raw id for any
\* other id that is in the directory, whatever its length; "D/ST: <id>" for
\* a string of at most 3 characters that is not in the directory; and the
\* raw id otherwise.
C9_DirectoryEntryWithoutNameIsRaw ==
    rep.out.done =>
        \A i \in PairFirsts : \A side \in 1..2 :
            \A slot \in 1..Len(StartersAt(Sides(i)[side])) :
                NameField(i, side, slot)
                    = ljust(FourWayName(StartersAt(Sides(i)[side])[slot]), PlayerWidth)

\* C9 witness: a rendered block with a starter of at most 3 characters that
\* is in the directory without both names, shown as its raw id.
C9_Witness ==
    /\ rep.out.done
    /\ \E i \in PairFirsts : \E side \in 1..2 :
          \E slot \in 1..Len(StartersAt(Sides(i)[side])) :
              LET id == StartersAt(Sides(i)[side])[slot] IN
              /\ InDirectory(id) /\ ~HasBothNames(id) /\ IsShortString(id)
              /\ NameField(i, side, slot) = ljust(id.s, PlayerWidth)

\* The owner and record fields of one side of the header of the block of
\* the group that starts at record i.
OwnerField(i, side) ==
    LET line == Lines[BlockOf(i) + 1] IN
    IF side = 1 THEN SubSeq(line, 8, 7 + OwnerWidth)
    ELSE SubSeq(line, 18 + OwnerWidth, Len(line))
RecordField(i, side) ==
    LET line == Lines[BlockOf(i) + 2] IN
    IF side = 1 THEN SubSeq(line, 9, 8 + RecordWidth)
    ELSE SubSeq(line, 20 + RecordWidth, Len(line))
Pad(text, side, width) == IF side = 1 THEN ljust(text, width) ELSE text
NoRoster(i) == RostersOf(i) = {}
NoOwner(i) == OwnersOf(i) = {}
NoSettings(i) == SettingsOf(i) = {}

\* C10: once the report is shown no error has left it; in every group of
\* two, a side whose roster_id is in no roster or whose roster's owner is no
\* user shows the owner "Unknown", and a side whose roster_id is in no
\* roster or whose roster has no settings shows the record "0-0"; and every
\* group of two of the week has its block.
C10_MissingReferencesDegrade ==
    rep.out.done =>
        /\ ~rep.out.raised
        /\ \A i \in PairFirsts : BlockOf(i) \in BlockStarts
        /\ \A i \in PairFirsts : \A side \in 1..2 :
              LET record == Sides(i)[side] IN
              /\ NoRoster(record) \/ NoOwner(record)
                    => OwnerField(i, side) = Pad("Unknown", side, OwnerWidth)
              /\ NoRoster(record) \/ NoSettings(record)
                    => RecordField(i, side) = Pad("0-0", side, RecordWidth)

\* C10 witness: a shown report of two blocks, the first with a side whose
\* roster_id is in no roster, the second with sides that lack nothing.
C10_Witness ==
    /\ rep.out.done
    /\ Cardinality(BlockStarts) = 2
    /\ \E i, j \in PairFirsts :
          /\ i < j
          /\ \E side \in 1..2 : NoRoster(Sides(i)[side])
                                /\ OwnerField(i, side) = Pad("Unknown", side, OwnerWidth)
                                /\ RecordField(i, side) = Pad("0-0", side, RecordWidth)
          /\ \A side \in 1..2 : ~NoOwner(Sides(j)[side]) /\ ~NoSettings(Sides(j)[side])

(***************************************************************************)
(* The matchup report on point values: one matchup whose sides bring point *)
(* lists that are complete, shorter than the lineup, absent, or hold a     *)
(* null at a position (a starter with no score yet).                       *)
(***************************************************************************)
MaxSides == 2

PointKinds == {"full", "short", "absent", "null", "bench"}

PointsOf(roster_id) ==
    IF roster_id = 1 THEN <<JNum(10), JNum(7), JNum(0)>>
    ELSE <<JNum(5), JNum(3), JNum(8), JNum(1)>>

PointRecord(roster_id, kind) ==
    CASE kind = "full" ->
            JDict(<<"matchup_id", "roster_id", "starters", "starters_points", "points">>,
                  <<JNum(1), JNum(roster_id), JList(StartersOf(roster_id)),
                    JList(PointsOf(roster_id)), JNum(17)>>)
      [] kind = "short" ->
            JDict(<<"matchup_id", "roster_id", "starters", "starters_points", "points">>,
                  <<JNum(1), JNum(roster_id), JList(StartersOf(roster_id)),
                    JList(SubSeq(PointsOf(roster_id), 1, 2)), JNum(17)>>)
      [] kind = "absent" ->
            JDict(<<"matchup_id", "roster_id", "starters", "points">>,
                  <<JNum(1), JNum(roster_id), JList(StartersOf(roster_id)), JNum(0)>>)
      [] kind = "null" ->
            JDict(<<"matchup_id", "roster_id", "starters", "starters_points", "points">>,
                  <<JNum(1), JNum(roster_id), JList(StartersOf(roster_id)),
                    JList([PointsOf(roster_id) EXCEPT ![2] = JNull]), JNum(10)>>)
      [] OTHER ->
            JDict(<<"matchup_id", "roster_id", "starters", "starters_points", "points">>,
                  <<JNum(1), JNum(roster_id), JList(<<>>), JList(<<>>), JNum(0)>>)

InitPoints ==
    /\ files = [p \in Paths |-> NoFile]
    /\ now = 0
    /\ api = SleeperAPI("7")
    /\ call = NoCall
    /\ calls = 0
    /\ damaged = 0
    /\ tui = NoTui
    /\ fetched = [p \in Paths |-> NoFetch]
    /\ Idle
    /\ \E n \in 0..MaxSides :
          \E ids \in [1..n -> {1, 2}], kinds \in [1..n -> PointKinds] :
              rep = [week |-> 1,
                     data |-> JList([i \in 1..n |-> PointRecord(ids[i], kinds[i])]),
                     out |-> NoOutput]

NextPoints == ShowMatchups

SpecPoints == InitPoints /\ [][NextPoints]_vars

\* The points columns of a body line, and the point value a side has for a
\* starter slot: none when the list is absent, too short, or holds null.
PointsColumn(side) == NameColumn(side) + PlayerWidth + 1
PointsField(i, side, slot) ==
    SubSeq(Lines[BlockOf(i) + HeaderLines - 1 + slot],
           PointsColumn(side), PointsColumn(side) + PointsWidth - 1)
PointsAt(i) == get(Records[i], "starters_points", JList(<<>>)).items
HasPoint(i, slot) == slot <= Len(PointsAt(i)) /\ PointsAt(i)[slot].t = "num"
NullPoint(i) ==
    \E slot \in 1..Len(PointsAt(i)) : PointsAt(i)[slot].t = "null"
ExpectedPoints(i, slot) ==
    IF HasPoint(i, slot) THEN ToString(PointsAt(i)[slot].n) \o ".0" ELSE ""
ExpectedName(i, slot) ==
    IF slot <= Len(StartersAt(i)) THEN FourWayName(StartersAt(i)[slot]) ELSE ""
PlayerLinesAsExpected(i) ==
    /\ BlockEnd(BlockOf(i)) - BlockOf(i) + 1 = HeaderLines + BodyLength(i) + FooterLines
    /\ \A slot \in 1..BodyLength(i), side \in 1..2 :
          /\ NameField(i, side, slot) = ljust(ExpectedName(Sides(i)[side], slot), PlayerWidth)
          /\ PointsField(i, side, slot)
                = rjust(ExpectedPoints(Sides(i)[side], slot), PointsWidth)

\* C20 (as claimed): the report of a matchup never aborts; its body has as
\* many lines as the longer lineup; line i shows each side's i-th starter
\* and i-th point value, and an empty points field where the value is
\* missing: list absent, list too short, or null at that position.
C20_PlayerLines ==
    rep.out.done =>
        /\ ~rep.out.raised
        /\ Cardinality(BlockStarts) = Cardinality(PairFirsts)
        /\ \A i \in PairFirsts : PlayerLinesAsExpected(i)

\* C20, for sides whose point lists hold no null: the same, with an empty
\* field for an absent list or a slot beyond the end of the list.
C20_PlayerLinesWithoutNull ==
    (rep.out.done /\ \A i \in 1..Len(Records) : ~NullPoint(i)) =>
        /\ ~rep.out.raised
        /\ Cardinality(BlockStarts) = Cardinality(PairFirsts)
        /\ \A i \in PairFirsts : PlayerLinesAsExpected(i)

(***************************************************************************)
(* SleeperTUI.show_rosters: the roster table, from the rosters, the users  *)
(* and the player directory.                                               *)
(***************************************************************************)
MaxShown == 10

\* format_player_name of show_rosters: the value the function returns, a
\* string or the player_id itself.
rosters_format_player_name(player_id, players_data) ==
    IF player_id.t = "str" /\ has(players_data, player_id.s)
    THEN LET p == get(players_data, player_id.s, JNull)
             first_name == get(p, "first_name", JStr(""))
             first == IF Truthy(first_name) THEN SubSeq(first_name.s, 1, 1) ELSE ""
             last == get(p, "last_name", JStr(""))
         IN IF first # "" /\ Truthy(last)
            THEN JStr(first \o ". " \o str(last))
            ELSE player_id
    ELSE player_id

\* ", ".join(names[:k])
RECURSIVE join(_, _, _)
join(names, i, k) ==
    IF i > k \/ i > Len(names) THEN ""
    ELSE names[i].s \o (IF i < k /\ i < Len(names) THEN ", " ELSE "") \o join(names, i + 1, k)

\* users[r["owner_id"]]: a subscript instead of .get.
rosters_owner_subscript(r, users_data) ==
    IF pairs_has(users_by_id(users_data), get(r, "owner_id", JNull))
    THEN pairs_get(users_by_id(users_data), get(r, "owner_id", JNull), JStr("Unknown"))
    ELSE [t |-> "raise", n |-> 0, s |-> "KeyError", keys |-> <<>>, items |-> <<>>]

\* users.get(r["owner_id"], "Unknown")
rosters_owner(r, users_data) ==
    pairs_get(users_by_id(users_data), get(r, "owner_id", JNull), JStr("Unknown"))

\* player_names = [format_player_name(pid) for pid in r.get("players", [])]
rosters_player_names(r, players_data) ==
    LET ids == get(r, "players", JList(<<>>)).items IN
    [i \in 1..Len(ids) |-> rosters_format_player_name(ids[i], players_data)]

\* What raises while one row is built: iterating players that are not a
\* list, r["owner_id"] on a missing key, str.join on a name that is not a
\* string.
rosters_row_raises(r, users_data, players_data) ==
    \/ get(r, "players", JList(<<>>)).t # "list"
    \/ ~has(r, "owner_id")
    \/ rosters_owner(r, users_data).t = "raise"
    \/ \E i \in 1..Len(rosters_player_names(r, players_data)) :
          i <= MaxShown /\ rosters_player_names(r, players_data)[i].t # "str"

\* One row, as show_table shows it: str(x) of each cell.
rosters_row(r, users_data, players_data) ==
    LET player_names == rosters_player_names(r, players_data) IN
    << str(rosters_owner(r, users_data)),
       join(player_names, 1, MaxShown)
           \o (IF Len(player_names) > MaxShown THEN "..." ELSE "") >>

\* show_rosters: the rows handed to show_table, unless an exception left it.
show_rosters(rosters_data, users_data, players_data) ==
    IF \/ \E i \in 1..Len(users_data.items) :
             ~has(users_data.items[i], "user_id") \/ ~has(users_data.items[i], "display_name")
       \/ \E i \in 1..Len(rosters_data.items) :
             rosters_row_raises(rosters_data.items[i], users_data, players_data)
    THEN [done |-> TRUE, raised |-> TRUE, rows |-> <<>>]
    ELSE [done |-> TRUE, raised |-> FALSE,
          rows |-> [i \in 1..Len(rosters_data.items) |->
                       rosters_row(rosters_data.items[i], users_data, players_data)]]

(***************************************************************************)
(* The roster table on bounded inputs: the users and player directory of   *)
(* the matchup report, and every sequence of at most MaxRosters rosters of *)
(* the kinds below.                                                        *)
(***************************************************************************)
MaxRosters == 3

\* A roster of a known owner; of an owner that is no user, with directory
\* entries that lack a name; of no owner (owner_id null) with an empty list;
\* without a players key; and with more players than a row shows.
RosterKinds ==
    { JDict(<<"roster_id", "owner_id", "players">>,
            <<JNum(1), JStr("u1"), JList(<<JStr("4046"), JStr("KC"), JStr("9999")>>)>>),
      JDict(<<"roster_id", "owner_id", "players">>,
            <<JNum(2), JStr("u9"),
              JList(<<JStr("88"), JStr("DEN"), JStr("5555"), JStr("17")>>)>>),
      JDict(<<"roster_id", "owner_id", "players">>,
            <<JNum(3), JNull, JList(<<>>)>>),
      JDict(<<"roster_id", "owner_id">>, <<JNum(4), JStr("u2")>>),
      JDict(<<"roster_id", "owner_id", "players">>,
            <<JNum(5), JStr("u2"),
              JList(<<JStr("17"), JStr("a"), JStr("b"), JStr("c"), JStr("d"), JStr("e"),
                      JStr("f"), JStr("g"), JStr("h"), JStr("4046"), JStr("KC")>>)>>) }

InitRosters ==
    /\ files = [p \in Paths |-> NoFile]
    /\ now = 0
    /\ api = SleeperAPI("7")
    /\ call = NoCall
    /\ calls = 0
    /\ damaged = 0
    /\ tui = NoTui
    /\ rep = NoRep
    /\ fetched = [p \in Paths |-> NoFetch]
    /\ look = NoLook
    /\ proc = NoProc
    /\ \E n \in 0..MaxRosters :
          \E rs \in [1..n -> RosterKinds] : ros = [data |-> JList(rs), out |-> NoRos.out]

ShowRosters ==
    /\ ~ros.out.done
    /\ ros' = [ros EXCEPT !.out = show_rosters(ros.data, UsersData, PlayersData)]
    /\ UNCHANGED <<files, now, api, call, calls, damaged, tui, rep, fetched, look, proc>>

NextRosters == ShowRosters

SpecRosters == InitRosters /\ [][NextRosters]_vars

(***************************************************************************)
(* Properties of the roster table (SpecRosters).                           *)
(***************************************************************************)
RosterAt(i) == ros.data.items[i]
OwnerNames(i) ==
    {get(UsersData.items[u], "display_name", JNull).s :
        u \in {v \in 1..Len(UsersData.items) :
                  get(UsersData.items[v], "user_id", JNull) = get(RosterAt(i), "owner_id", JNull)}}
PlayerIds(i) == IF has(RosterAt(i), "players") THEN get(RosterAt(i), "players", JNull).items ELSE <<>>
ShortName(id) ==
    IF HasBothNames(id)
    THEN SubSeq(get(Entry(id), "first_name", JNull).s, 1, 1) \o ". "
         \o get(Entry(id), "last_name", JNull).s
    ELSE RawId(id)
\* The text of the name at position k of a cell, and what follows it.
RECURSIVE CellFrom(_, _)
CellFrom(i, k) ==
    IF k > Len(PlayerIds(i)) THEN ""
    ELSE IF k > MaxShown THEN "..."
    ELSE ShortName(PlayerIds(i)[k])
         \o (IF k < Len(PlayerIds(i)) /\ k < MaxShown THEN ", " ELSE "")
         \o CellFrom(i, k + 1)

\* C11: once the roster table is shown no error has left it; it has one row
\* per roster, in roster order; the owner cell of a row is the display name
\* of the user whose user_id is the roster's owner_id, or "Unknown" when
\* there is none; and the players cell lists, for each player id shown,
\* "<initial>. <last name>" when the directory entry has both names and the
\* raw id otherwise.
C11_OneRowPerRoster ==
    ros.out.done =>
        /\ ~ros.out.raised
        /\ Len(ros.out.rows) = Len(ros.data.items)
        /\ \A i \in 1..Len(ros.data.items) :
              /\ IF OwnerNames(i) = {} THEN ros.out.rows[i][1] = "Unknown"
                 ELSE ros.out.rows[i][1] \in OwnerNames(i)
              /\ ros.out.rows[i][2] = CellFrom(i, 1)

\* C11 witness: a table of several rows in which a roster of an owner that
\* is no user, with directory entries lacking a name, comes before a roster
\* of a known owner.
C11_Witness ==
    /\ ros.out.done
    /\ \E i, j \in 1..Len(ros.out.rows) :
          /\ i < j
          /\ OwnerNames(i) = {} /\ ros.out.rows[i] = <<"Unknown", "88, DEN, 5555, P. Mahomes">>
          /\ ros.out.rows[j] = <<"alice", "T. Kelce, KC, 9999">>

(***************************************************************************)
(* LeagueLookupScreen: the search by username and partial league name.     *)
(* Python's str.lower, str.strip and `in` on the characters the model      *)
(* uses (str.strip is defined with int() above).                           *)
(***************************************************************************)
Uppers == "ABCDEFGHIJKLMNOPQRSTUVWXYZ"
Lowers == "abcdefghijklmnopqrstuvwxyz"

char_lower(c) ==
    IF \E i \in 1..Len(Uppers) : SubSeq(Uppers, i, i) = c
    THEN LET i == CHOOSE j \in 1..Len(Uppers) : SubSeq(Uppers, j, j) = c
         IN SubSeq(Lowers, i, i)
    ELSE c

\* str.lower()
RECURSIVE lower(_)
lower(text) ==
    IF Len(text) = 0 THEN ""
    ELSE char_lower(SubSeq(text, 1, 1)) \o lower(SubSeq(text, 2, Len(text)))

\* needle in text
contains(needle, text) ==
    \E i \in 1..(Len(text) - Len(needle) + 1) : SubSeq(text, i, i + Len(needle) - 1) = needle

\* type(v).__name__
type_name(v) ==
    CASE v.t = "null" -> "NoneType"
      [] v.t = "num" -> "int"
      [] v.t = "dict" -> "dict"
      [] OTHER -> v.t

\* str(e) of the exception fetch raises; the text requests gives it is
\* shortened to the class of the exception.
fetch_error(resp) ==
    IF ~resp.transport THEN "ConnectionError"
    ELSE IF resp.status >= 400 /\ resp.status < 600 THEN "HTTPError"
    ELSE "JSONDecodeError"

\* The first exception of the list comprehension
\* [lg for lg in leagues if name_query in lg["name"].lower()], as str(e), or
\* "" when it raises nothing.
RECURSIVE filter_error(_, _)
filter_error(leagues, i) ==
    IF leagues.t \in {"null", "num", "bool"}
    THEN "'" \o type_name(leagues) \o "' object is not iterable"
    ELSE IF leagues.t = "str"
    THEN (IF Len(leagues.s) = 0 THEN "" ELSE "string indices must be integers")
    ELSE IF leagues.t = "dict"
    THEN (IF Len(leagues.keys) = 0 THEN "" ELSE "string indices must be integers")
    ELSE IF i > Len(leagues.items) THEN ""
    ELSE LET lg == leagues.items[i] IN
         IF lg.t \in {"null", "num", "bool"}
         THEN "'" \o type_name(lg) \o "' object is not subscriptable"
         ELSE IF lg.t \in {"str", "list"}
         THEN (IF lg.t = "str" THEN "string" ELSE "list") \o " indices must be integers"
         ELSE IF ~has(lg, "name") THEN "'name'"
         ELSE IF get(lg, "name", JNull).t # "str"
         THEN "'" \o type_name(get(lg, "name", JNull)) \o "' object has no attribute 'lower'"
         ELSE filter_error(leagues, i + 1)

\* `name_query in lg["name"]`: the name is compared as it is written.
league_matches_cased(lg, name_query) == contains(name_query, get(lg, "name", JNull).s)

\* name_query in lg["name"].lower()
league_matches(lg, name_query) == contains(name_query, lower(get(lg, "name", JNull).s))

\* matches = [lg for lg in leagues if ...], from the i-th league on.
RECURSIVE matches_from(_, _, _)
matches_from(leagues, i, name_query) ==
    IF i > Len(leagues.items) THEN <<>>
    ELSE (IF league_matches(leagues.items[i], name_query)
          THEN <<leagues.items[i]>> ELSE <<>>)
         \o matches_from(leagues, i + 1, name_query)

\* table.add_row(lg["name"], lg["league_id"], str(lg.get("season", "")))
table_row(lg) ==
    << get(lg, "name", JNull), get(lg, "league_id", JNull),
       JStr(str(get(lg, "season", JStr("")))) >>

\* What the screen shows after a search: the status text (the form's Static),
\* the results table when one was mounted, whether the form is still there,
\* the requests made, and what each lookup returned.
NotCalled == [called |-> FALSE, raised |-> FALSE, val |-> JNull]
Called(r) == [called |-> TRUE, raised |-> r.raised, val |-> r.val]
Shown(status, form, table, log, user_data, leagues) ==
    [status |-> status, form |-> form, table |-> table, log |-> log,
     user_data |-> user_data, leagues |-> leagues]

\* _search_leagues(username, league_name), called in the year `season`; the
\* service answers the user lookup with resp1 and the leagues lookup, when
\* it is made, with resp2.  Every exception ends in the `except Exception`.
search_leagues(username, partial_name, season, resp1, resp2) ==
    LET first == fetch(resp1)
        log1 == <<user_url(username)>>
    IN
    IF first.raised
    THEN Shown("Error: " \o fetch_error(resp1), TRUE, <<>>, log1, Called(first), NotCalled)
    ELSE IF first.val.t # "dict"
    THEN Shown("Error: '" \o type_name(first.val) \o "' object has no attribute 'get'",
               TRUE, <<>>, log1, Called(first), NotCalled)
    ELSE LET user_id == get(first.val, "user_id", JNull) IN
    IF ~Truthy(user_id)
    THEN Shown("Could not resolve user ID", TRUE, <<>>, log1, Called(first), NotCalled)
    ELSE LET second == fetch(resp2)
             log2 == log1 \o <<user_leagues_url(str(user_id), season)>>
             name_query == lower(partial_name)
         IN
    IF second.raised
    THEN Shown("Error: " \o fetch_error(resp2), TRUE, <<>>, log2, Called(first), Called(second))
    ELSE IF filter_error(second.val, 1) # ""
    THEN Shown("Error: " \o filter_error(second.val, 1), TRUE, <<>>, log2,
               Called(first), Called(second))
    ELSE LET matches == IF second.val.t = "list"
                        THEN matches_from(second.val, 1, name_query) ELSE <<>>
         IN
    IF matches = <<>>
    THEN Shown("No matching leagues found", TRUE, <<>>, log2, Called(first), Called(second))
    ELSE IF \E i \in 1..Len(matches) : ~has(matches[i], "league_id")
    THEN Shown("Error: 'league_id'", FALSE, <<>>, log2, Called(first), Called(second))
    ELSE Shown("Searching...", FALSE, [i \in 1..Len(matches) |-> table_row(matches[i])],
               log2, Called(first), Called(second))

\* on_button_pressed, btn_search: both fields are stripped and must be
\* non-empty.
press_search(username_input, partial_name_input, season, resp1, resp2) ==
    LET username == strip(username_input)
        partial_name == strip(partial_name_input)
    IN IF username # "" /\ partial_name # ""
       THEN search_leagues(username, partial_name, season, resp1, resp2)
       ELSE Shown("Please enter both username and league name", TRUE, <<>>, <<>>,
                  NotCalled, NotCalled)

(***************************************************************************)
(* The lookup screen in use: the user fills both fields and presses        *)
(* "Search Leagues"; the service answers each lookup as it likes; "Back"   *)
(* leaves the results table for the form.                                  *)
(***************************************************************************)
MaxSearches == 2

UsernameInputs == {"alice", " bob ", ""}
PartialNameInputs == {"dynasty", "DYN", " League ", "keeper league", "zzz", ""}

\* What the service may answer to user(username): a user, an object without
\* user_id, with an empty or null user_id, no object at all (null, the
\* service's answer for an unknown name), a 404, no connection.
UserResponses ==
    { Response(TRUE, 200, dumps(JDict(<<"user_id", "display_name">>,
                                      <<JStr("u1"), JStr("alice")>>), 0)),
      Response(TRUE, 200, dumps(JDict(<<"display_name">>, <<JStr("bob")>>), 0)),
      Response(TRUE, 200, dumps(JDict(<<"user_id">>, <<JStr("")>>), 0)),
      Response(TRUE, 200, dumps(JDict(<<"user_id">>, <<JNull>>), 0)),
      Response(TRUE, 200, dumps(JNull, 0)),
      Response(TRUE, 404, dumps(JNull, 0)),
      Response(FALSE, 0, <<>>) }

LeaguesOfUser ==
    JList(<< JDict(<<"name", "league_id", "season">>,
                   <<JStr("2024 Dynasty League"), JStr("101"), JStr("2024")>>),
             JDict(<<"name", "league_id", "season">>,
                   <<JStr("2024 Keeper League"), JStr("102"), JStr("2024")>>),
             JDict(<<"name", "league_id">>, <<JStr("DYNASTY dogs"), JStr("103")>>) >>)

\* What the service may answer to user_leagues: three leagues, none, null,
\* a league without a name, a server error.
LeaguesResponses ==
    { Response(TRUE, 200, dumps(LeaguesOfUser, 0)),
      Response(TRUE, 200, dumps(JList(<<>>), 0)),
      Response(TRUE, 200, dumps(JNull, 0)),
      Response(TRUE, 200, dumps(JList(<<JDict(<<"league_id">>, <<JStr("104")>>)>>), 0)),
      Response(TRUE, 500, NotJson) }

NoShown == Shown("", TRUE, <<>>, <<>>, NotCalled, NotCalled)

\* The screen: pc is "form", "results" (the table is shown) or "blank" (the
\* form was cleared and no table mounted); searched says that out is what
\* the last press of the search button left; raised that an exception left
\* the handler.
NewLook ==
    [pc |-> "form", searches |-> 0, searched |-> FALSE, raised |-> FALSE,
     username |-> "", partial_name |-> "", out |-> NoShown]

PressSearch ==
    /\ look.pc = "form"
    /\ look.searches < MaxSearches
    /\ \E username_input \in UsernameInputs, partial_name_input \in PartialNameInputs,
          season \in Seasons, resp1 \in UserResponses, resp2 \in LeaguesResponses :
          LET out == press_search(username_input, partial_name_input, season, resp1, resp2)
          IN look' = [pc |-> IF out.form THEN "form"
                             ELSE IF out.table # <<>> THEN "results" ELSE "blank",
                      searches |-> look.searches + 1,
                      searched |-> TRUE,
                      raised |-> FALSE,
                      username |-> username_input,
                      partial_name |-> partial_name_input,
                      out |-> out]
    /\ UNCHANGED <<files, now, api, call, calls, damaged, tui, rep, fetched, ros, proc>>

\* on_button_pressed, btn_back: the form is rebuilt with empty fields.
PressBack ==
    /\ look.pc = "results"
    /\ look' = [look EXCEPT !.pc = "form", !.searched = FALSE, !.username = "",
                            !.partial_name = "", !.out = NoShown]
    /\ UNCHANGED <<files, now, api, call, calls, damaged, tui, rep, fetched, ros, proc>>

\* LeagueLookupScreen.__init__: self.api = SleeperAPI("0").
InitLookup ==
    /\ files = [p \in Paths |-> NoFile]
    /\ now = 0
    /\ api = SleeperAPI("0")
    /\ call = NoCall
    /\ calls = 0
    /\ damaged = 0
    /\ tui = NoTui
    /\ rep = NoRep
    /\ fetched = [p \in Paths |-> NoFetch]
    /\ ros = NoRos
    /\ proc = NoProc
    /\ look = NewLook

NextLookup == PressSearch \/ PressBack

SpecLookup == InitLookup /\ [][NextLookup]_vars

(***************************************************************************)
(* Properties of the search (SpecLookup).                                  *)
(***************************************************************************)
\* The user lookup of the last search was answered and the answer holds no
\* user identifier: it is no object, or an object whose user_id is missing,
\* null or empty.
NoIdentifier ==
    /\ look.out.user_data.called /\ ~look.out.user_data.raised
    /\ \/ look.out.user_data.val.t # "dict"
       \/ ~has(look.out.user_data.val, "user_id")
       \/ get(look.out.user_data.val, "user_id", JNull) \in {JNull, JStr("")}

\* C12 (as claimed): a search whose user lookup yields no user identifier
\* ends with the status "Could not resolve user ID", having requested the
\* user and nothing else, and no exception leaves the handler.
C12_NoIdentifierStops ==
    (look.searched /\ NoIdentifier) =>
        /\ look.out.status = "Could not resolve user ID"
        /\ ~look.out.leagues.called
        /\ look.out.log = <<user_url(strip(look.username))>>
        /\ ~look.raised

\* The leagues of the last search, when the lookup returned a list of
\* leagues that have a name and an id; the query as the pipeline got it.
LeaguesFound == look.out.leagues.val.items
GotLeagues ==
    /\ look.searched
    /\ look.out.leagues.called /\ ~look.out.leagues.raised
    /\ look.out.leagues.val.t = "list"
    /\ \A i \in 1..Len(LeaguesFound) :
          /\ LeaguesFound[i].t = "dict"
          /\ has(LeaguesFound[i], "name") /\ get(LeaguesFound[i], "name", JNull).t = "str"
          /\ has(LeaguesFound[i], "league_id")
Query == strip(look.partial_name)
LeagueNameAt(i) == get(LeaguesFound[i], "name", JNull).s
SameLetter(a, b) ==
    \/ a = b
    \/ \E k \in 1..Len(Uppers) :
          {a, b} = {SubSeq(Uppers, k, k), SubSeq(Lowers, k, k)}
ContainsIgnoringCase(query, text) ==
    \E offset \in 0..(Len(text) - Len(query)) :
        \A k \in 1..Len(query) :
            SameLetter(SubSeq(query, k, k), SubSeq(text, offset + k, offset + k))
Matching == {i \in 1..Len(LeaguesFound) : ContainsIgnoringCase(Query, LeagueNameAt(i))}

\* C13: when the leagues lookup returned leagues, the results table holds
\* exactly the leagues whose name contains the query, letters compared
\* without regard to case, in the order the service returned them; when
\* there is none the status is "No matching leagues found", the form stays,
\* no table is shown and no exception leaves the handler.
C13_ResultIsMatchingSubsequence ==
    GotLeagues =>
        /\ ~look.raised
        /\ Len(look.out.table) = Cardinality(Matching)
        /\ \A i \in Matching :
              /\ look.out.table[Rank(Matching, i)][1] = get(LeaguesFound[i], "name", JNull)
              /\ look.out.table[Rank(Matching, i)][2] = get(LeaguesFound[i], "league_id", JNull)
        /\ Matching = {} <=> look.out.status = "No matching leagues found"
        /\ Matching = {} => look.out.form /\ look.pc = "form"
        /\ Matching # {} => look.pc = "results"

\* C13 witness: a query in capitals matched the first and the third league
\* of three, written in other cases, and the table shows the two in order.
C13_Witness ==
    /\ GotLeagues
    /\ Query = "DYN"
    /\ Matching = {1, 3}
    /\ Len(look.out.table) = 2
    /\ look.out.table[1][2] = JStr("101")
    /\ look.out.table[2][2] = JStr("103")

(***************************************************************************)
(* A session that constructs the client itself, as ipy_sess.py does, and   *)
(* then queries it: the constructor is given any string.                   *)
(***************************************************************************)
ConstructorIds == LeagueIdInputs \cup {"", " 7 ", "+7", "7.0"}

NoApi == [exit |-> 0, league_id |-> ""]

\* api = SleeperAPI(league_id): pc is "start", then "ready" (the object
\* exists) or "exited" (sys.exit was called, with the status kept).
NewSleeperAPI ==
    /\ proc.pc = "start"
    /\ \E league_id \in ConstructorIds :
          /\ api' = SleeperAPI(league_id)
          /\ proc' = [pc |-> IF SleeperAPI(league_id).exit = 0 THEN "ready" ELSE "exited",
                      arg |-> league_id,
                      status |-> SleeperAPI(league_id).exit]
    /\ UNCHANGED <<files, now, call, calls, damaged, tui, rep, fetched, ros, look>>

\* users = api.users(); rosters = api.rosters(); players = api.players()
SessionCall ==
    /\ proc.pc = "ready"
    /\ (CallUsers \/ CallRosters \/ CallPlayers)

InitClient ==
    /\ files = [p \in Paths |-> NoFile]
    /\ now = 0
    /\ api = NoApi
    /\ call = NoCall
    /\ calls = 0
    /\ damaged = 0
    /\ tui = NoTui
    /\ rep = NoRep
    /\ fetched = [p \in Paths |-> NoFetch]
    /\ ros = NoRos
    /\ look = NoLook
    /\ proc = [pc |-> "start", arg |-> "", status |-> 0]

NextClient == NewSleeperAPI \/ SessionCall

SpecClient == InitClient /\ [][NextClient]_vars

(***************************************************************************)
(* Properties of the constructor (SpecClient).                             *)
(***************************************************************************)
\* An integer-formatted string: blanks, then at most one sign, then decimal
\* digits (single underscores between digits allowed), then blanks.
IsBlank(text) == \A i \in 1..Len(text) : SubSeq(text, i, i) = " "
IsDecimal(text) ==
    /\ Len(text) > 0
    /\ IsDigit(SubSeq(text, 1, 1)) /\ IsDigit(SubSeq(text, Len(text), Len(text)))
    /\ \A i \in 1..Len(text) : IsDigit(SubSeq(text, i, i)) \/ SubSeq(text, i, i) = "_"
    /\ \A i \in 1..(Len(text) - 1) : SubSeq(text, i, i + 1) # "__"
IntegerFormatted(text) ==
    \E a \in 1..Len(text), b \in 1..Len(text) :
        /\ a <= b
        /\ IsBlank(SubSeq(text, 1, a - 1)) /\ IsBlank(SubSeq(text, b + 1, Len(text)))
        /\ \/ IsDecimal(SubSeq(text, a, b))
           \/ SubSeq(text, a, a) \in {"+", "-"} /\ IsDecimal(SubSeq(text, a + 1, b))
NoInputOutput ==
    /\ \A p \in Paths : files[p] = NoFile
    /\ calls = 0 /\ call = NoCall

\* C14: the constructor given a string that is not integer-formatted ends
\* the process with status 1, and no cache file has been read or written
\* and no request made, then or ever after; given an integer-formatted
\* string it yields the client, having done no input or output itself.
C14_ConstructorFailsFast ==
    proc.pc # "start" =>
        /\ ~IntegerFormatted(proc.arg) =>
              proc.pc = "exited" /\ proc.status = 1 /\ NoInputOutput
        /\ IntegerFormatted(proc.arg) =>
              /\ proc.pc = "ready" /\ api.exit = 0
              /\ calls = 0 => NoInputOutput

\* C14 witness: the process has exited with status 1 on the id "7a".
C14_Witness ==
    /\ proc.pc = "exited" /\ proc.arg = "7a" /\ proc.status = 1
    /\ NoInputOutput

(***************************************************************************)
(* main(): the command line, the lookup screen when no usable league id    *)
(* was given, and the application once a league id is known.               *)
(***************************************************************************)
MaxAttempts == 2

\* An argparse value: None when the flag is absent, else the string given.
NotGiven == [given |-> FALSE, s |-> ""]
Given(text) == [given |-> TRUE, s |-> text]
\* `if args.league_id`: None and "" are both falsy.
ArgTruthy(arg) == arg.given /\ arg.s # ""

IdArgs == {NotGiven} \cup {Given(id) : id \in LeagueIdInputs \cup {""}}
UserArgs == {NotGiven, Given(""), Given("alice")}
\* What is typed into #league_id_input.
LoadInputs == {"7", " 007 ", "7a", ""}
LoadResponses ==
    {ServerOk("league"), Response(TRUE, 200, dumps(JNull, 0)), ServerError}

\* main() up to the first screen: "exited" with status 1, "app" with the
\* league id of --id, or "lookup".
main_checks(league_id, username) ==
    IF ArgTruthy(league_id) /\ ArgTruthy(username)
    THEN [pc |-> "exited", status |-> 1, league |-> ""]
    ELSE IF ArgTruthy(league_id)
    THEN (IF python_int(league_id.s).ok
          THEN [pc |-> "app", status |-> 0, league |-> league_id.s]
          ELSE [pc |-> "exited", status |-> 1, league |-> ""])
    ELSE [pc |-> "lookup", status |-> 0, league |-> ""]

\* _load_league(league_id): the status shown, or the id the screen exits
\* with; r is the outcome of test_api.league().
load_league(league_id, r) ==
    IF ~python_int(league_id).ok
    THEN [exits |-> FALSE, status |-> "League ID must be numeric"]
    ELSE IF r.raised
    THEN [exits |-> FALSE, status |-> "Error loading league"]
    ELSE [exits |-> TRUE, status |-> ""]

\* main() from its first line to the first screen it runs.
ParseArgs ==
    /\ proc.pc = "start"
    /\ LET m == main_checks(proc.league_id, proc.username) IN
          /\ proc' = [proc EXCEPT !.pc = m.pc, !.status = m.status, !.league = m.league,
                                  !.screens = IF m.pc = "lookup"
                                              THEN <<"LeagueLookupScreen">> ELSE @]
          /\ look' = IF m.pc = "lookup" THEN NewLook ELSE look
          /\ api' = IF m.pc = "lookup" THEN SleeperAPI("0") ELSE api
    /\ UNCHANGED <<files, now, call, calls, damaged, tui, rep, fetched, ros>>

\* on_button_pressed, btn_load_id: the stripped input, the client made for
\* it, the outcome of test_api.league() and what _load_league does with it.
PressLoad ==
    /\ proc.pc = "lookup"
    /\ proc.attempts < MaxAttempts
    /\ \E typed \in LoadInputs, resp \in LoadResponses :
       \E league_id \in {strip(typed)} :
       \E numeric \in {league_id # "" /\ python_int(league_id).ok} :
       \E test_api \in {IF numeric THEN SleeperAPI(league_id) ELSE NoApi} :
       \E r \in {IF numeric THEN league(files, test_api, FALSE, resp, now)
                  ELSE Outcome(FALSE, JNull, files, <<>>)} :
       \E done \in {IF league_id = ""
                     THEN [exits |-> FALSE, status |-> "Please enter a League ID"]
                     ELSE load_league(league_id, r)} :
          /\ files' = r.fs
          /\ fetched' = IF numeric THEN Remember(league_name(test_api), resp, r)
                         ELSE fetched
          /\ proc' = [proc EXCEPT !.attempts = @ + 1,
                                  !.reqs = @ \o r.reqs,
                                  !.pc = IF done.exits THEN "app" ELSE @,
                                  !.league = IF done.exits THEN league_id ELSE @]
          /\ look' = IF done.exits THEN NoLook
                      ELSE [look EXCEPT !.out.status = done.status]
    /\ UNCHANGED <<now, api, call, calls, damaged, tui, rep, ros>>

\* The "q" binding of the lookup screen: run() returns None and main() ends.
QuitLookup ==
    /\ proc.pc = "lookup"
    /\ proc' = [proc EXCEPT !.pc = "exited", !.status = 0]
    /\ look' = NoLook
    /\ UNCHANGED <<files, now, api, call, calls, damaged, tui, rep, fetched, ros>>

\* sleeper = SleeperTUI(title=..., league_id=league_id); sleeper.run()
StartApp ==
    /\ proc.pc = "app"
    /\ api' = SleeperAPI(proc.league)
    /\ tui' = NewTui(proc.league, NoTui)
    /\ proc' = [proc EXCEPT !.pc = "running", !.screens = @ \o <<"SleeperTUI">>]
    /\ UNCHANGED <<files, now, call, calls, damaged, rep, fetched, ros, look>>

\* The "q" binding of the application.
QuitApp ==
    /\ proc.pc = "running"
    /\ tui.pc = "idle"
    /\ proc' = [proc EXCEPT !.pc = "exited", !.status = 0]
    /\ tui' = [tui EXCEPT !.pc = "off"]
    /\ UNCHANGED <<files, now, api, call, calls, damaged, rep, fetched, ros, look>>

InitMain ==
    /\ files = [p \in Paths |-> NoFile]
    /\ now = 0
    /\ api = NoApi
    /\ call = NoCall
    /\ calls = 0
    /\ damaged = 0
    /\ tui = NoTui
    /\ rep = NoRep
    /\ fetched = [p \in Paths |-> NoFetch]
    /\ ros = NoRos
    /\ look = NoLook
    /\ \E league_id \in IdArgs, username \in UserArgs :
          proc = [pc |-> "start", league_id |-> league_id, username |-> username,
                  status |-> 0, league |-> "", attempts |-> 0,
                  screens |-> <<>>, reqs |-> <<>>]

NextMain ==
    \/ ParseArgs
    \/ PressLoad
    \/ QuitLookup
    \/ StartApp
    \/ OnMount
    \/ RefreshLeague
    \/ RefreshUsers
    \/ RefreshRosters
    \/ RefreshWeek
    \/ QuitApp

SpecMain == InitMain /\ [][NextMain]_vars

\* The flags as the claim reads them, and a process that has ended with a
\* non-zero status before any request and any screen.
BothSupplied == proc.league_id.given /\ proc.username.given
IdNotNumeric == proc.league_id.given /\ ~IntegerFormatted(proc.league_id.s)
FailedFast ==
    /\ proc.pc = "exited" /\ proc.status # 0
    /\ proc.reqs = <<>> /\ tui.log = <<>>
    /\ proc.screens = <<>>
    /\ \A p \in Paths : files[p] = NoFile

\* C15 (as claimed): once main() has looked at its arguments, a process
\* given both --id and --user, or an --id that is not numeric, has ended
\* with a non-zero status, no request issued and no screen started.
C15_EntryContract ==
    (proc.pc # "start" /\ (BothSupplied \/ IdNotNumeric)) => FailedFast

\* C15, for flags whose values are not empty strings: the same.
C15_NonEmptyFlags ==
    (/\ proc.pc # "start"
     /\ proc.league_id.given => proc.league_id.s # ""
     /\ proc.username.given => proc.username.s # ""
     /\ BothSupplied \/ IdNotNumeric) => FailedFast

====
